---- MODULE Spec2Model ----
(***************************************************************************)
(* Laser chess rules engine (src/src/logic.rs): the 8x8 board, move        *)
(* validation and application, rotation, laser cast/bounce, as a state     *)
(* machine whose actions are calls of Board::try_move; and around it the   *)
(* server's matchmaking and game session (src/src/bin/server.rs) and the   *)
(* command-line client (src/src/bin/client-cli.rs).                        *)
(*                                                                         *)
(* Option<T> is a sequence of length 0 (None) or 1 (Some(v)); Result<T,E>  *)
(* is a record tagged "Ok" or "Err".  Board.cell is indexed cell[y][x] as  *)
(* in the source.                                                          *)
(***************************************************************************)
EXTENDS Integers, Sequences, FiniteSets, TLC

\* cell   Board.cell of the board under the calls (in a server session:
\*        board_state of start_game)
\* last   the last call or step and what it returned
\* calls  the calls (in a server session: the moves applied) so far
\* and, of a server session (start_game):
\* pc         where start_game stands
\* sent_move  its local player_move, between try_move and the send
\* inbox      per player, the requests sent to the server and not yet read
\* outbox     per player, the messages the server sent, not yet read
\* and, of the processes around a session:
\* client     per player, the command-line client (src/src/bin/client-cli.rs):
\*            where its main stands, its local board and player_order, the
\*            moves it has sent and the moves applied to its board
\* lobby      matchmaking_loop of the server: the queue of upgraded
\*            connections, the pair being set up, the games started
VARIABLES cell, last, calls, pc, sent_move, inbox, outbox, client, lobby

session == <<pc, sent_move, inbox, outbox, client, lobby>>

vars == <<cell, last, calls, pc, sent_move, inbox, outbox, client, lobby>>

\* ------------------------------------------------------------------ bounds

\* Successive Rotate moves of one piece in one behaviour.
MaxRotations == 4

\* Successive calls of try_move on one board in one behaviour.
MaxTurns == 2

\* Requests a player has sent that the server has not read yet.
MaxInbox == 1

\* Messages the server has sent a player that the player has not read yet
\* (a send waits while the connection's buffer is full).
MaxOutbox == 1

\* Calls of try_move in one behaviour.
MaxCalls == 1

\* ------------------------------------------------------- program constants

\* Side of the grid: [[Option<Piece>; 8]; 8].
N == 8

Coords == 0 .. (N - 1)

\* ------------------------------------------------------------ Option/Result

None == <<>>

Some(v) == <<v>>

Unwrap(o) == o[1]

Ok(v) == [tag |-> "Ok", val |-> v]

Err(e) == [tag |-> "Err", err |-> e]

\* -------------------------------------------------------------- data model

Players == {"Player1", "Player2"}

Orientations == {"NE", "NW", "SE", "SW"}

Chiralities == {"Clockwise", "CounterClockwise"}

Quadrants == {"North", "East", "South", "West"}

Octants ==
    {"North", "NorthEast", "East", "SouthEast", "South", "SouthWest", "West", "NorthWest"}

InvalidMoves ==
    {"OutOfBounds", "NoPieceAtFrom", "NotYourPiece", "DestinationOccupied", "CannotRotate"}

King == [tag |-> "King"]

Block(stacked) == [tag |-> "Block", stacked |-> stacked]

OneSide(o) == [tag |-> "OneSide", orientation |-> o]

TwoSide(o) == [tag |-> "TwoSide", orientation |-> o]

PieceKinds ==
    {King} \cup {Block(s) : s \in BOOLEAN}
           \cup {OneSide(o) : o \in Orientations}
           \cup {TwoSide(o) : o \in Orientations}

Piece(kind, allegiance) == [kind |-> kind, allegiance |-> allegiance]

Pieces == {Piece(k, a) : k \in PieceKinds, a \in Players}

usizevec2(x, y) == [x |-> x, y |-> y]

Positions == {usizevec2(x, y) : x \in Coords, y \in Coords}

MoveKinds ==
    {[tag |-> "Move", direction |-> d] : d \in Octants}
        \cup {[tag |-> "Rotate", chirality |-> c] : c \in Chiralities}

Move(from, kind) == [from |-> from, kind |-> kind]

Laser(position, direction) == [position |-> position, direction |-> direction]

\* Board { cell: [[None; 8]; 8] }
EmptyBoard == [y \in Coords |-> [x \in Coords |-> None]]

\* board.cell[y][x] = v
SetCell(board, pos, v) == [board EXCEPT ![pos.y][pos.x] = v]

At(board, pos) == board[pos.y][pos.x]

\* ---------------------------------------------------------------- geometry

\* usize::checked_add(1): Some(v + 1).  Coordinates are below 8 (indexing
\* cell with 8 or more panics before any arithmetic), so the addition never
\* overflows usize.
checked_add(v, d) == Some(v + d)

\* usize::checked_sub(1): None below zero.
checked_sub(v, d) == IF v >= d THEN Some(v - d) ELSE None

add_compass_quadrant(pos, dir) ==
    LET xa == checked_add(pos.x, 1)
        ya == checked_add(pos.y, 1)
        xs == checked_sub(pos.x, 1)
        ys == checked_sub(pos.y, 1)
    IN  CASE dir = "North" ->
               IF ya = None THEN None
               ELSE IF Unwrap(ya) < N THEN Some(usizevec2(pos.x, Unwrap(ya))) ELSE None
          [] dir = "East" ->
               IF xa = None THEN None
               ELSE IF Unwrap(xa) < N THEN Some(usizevec2(Unwrap(xa), pos.y)) ELSE None
          [] dir = "South" ->
               IF ys = None THEN None ELSE Some(usizevec2(pos.x, Unwrap(ys)))
          [] dir = "West" ->
               IF xs = None THEN None ELSE Some(usizevec2(Unwrap(xs), pos.y))

\* add_compass_octant with saturating_sub(1) in place of checked_sub(1): a
\* step below zero stays on coordinate 0 instead of leaving the grid.
add_compass_octant_saturating(pos, dir) ==
    LET dx == IF dir \in {"NorthEast", "East", "SouthEast"} THEN 1
              ELSE IF dir \in {"NorthWest", "West", "SouthWest"} THEN -1 ELSE 0
        dy == IF dir \in {"NorthEast", "North", "NorthWest"} THEN 1
              ELSE IF dir \in {"SouthEast", "South", "SouthWest"} THEN -1 ELSE 0
        x  == IF pos.x + dx < 0 THEN 0 ELSE pos.x + dx
        y  == IF pos.y + dy < 0 THEN 0 ELSE pos.y + dy
    IN  IF x < N /\ y < N THEN Some(usizevec2(x, y)) ELSE None

add_compass_octant(pos, dir) ==
    LET xa == checked_add(pos.x, 1)
        ya == checked_add(pos.y, 1)
        xs == checked_sub(pos.x, 1)
        ys == checked_sub(pos.y, 1)
    IN  CASE dir = "North" ->
               IF ya = None THEN None
               ELSE IF Unwrap(ya) < N THEN Some(usizevec2(pos.x, Unwrap(ya))) ELSE None
          [] dir = "NorthEast" ->
               IF xa = None \/ ya = None THEN None
               ELSE IF Unwrap(xa) < N /\ Unwrap(ya) < N
                    THEN Some(usizevec2(Unwrap(xa), Unwrap(ya))) ELSE None
          [] dir = "East" ->
               IF xa = None THEN None
               ELSE IF Unwrap(xa) < N THEN Some(usizevec2(Unwrap(xa), pos.y)) ELSE None
          [] dir = "SouthEast" ->
               IF xa = None \/ ys = None THEN None
               ELSE IF Unwrap(xa) < N
                    THEN Some(usizevec2(Unwrap(xa), Unwrap(ys))) ELSE None
          [] dir = "South" ->
               IF ys = None THEN None ELSE Some(usizevec2(pos.x, Unwrap(ys)))
          [] dir = "SouthWest" ->
               IF xs = None \/ ys = None THEN None
               ELSE Some(usizevec2(Unwrap(xs), Unwrap(ys)))
          [] dir = "West" ->
               IF xs = None THEN None ELSE Some(usizevec2(Unwrap(xs), pos.y))
          [] dir = "NorthWest" ->
               IF xs = None \/ ya = None THEN None
               ELSE IF Unwrap(ya) < N
                    THEN Some(usizevec2(Unwrap(xs), Unwrap(ya))) ELSE None

\* ---------------------------------------------------------------- rotation

\* Orientation::rotate confused with Orientation::mirrored (a half turn).
Orientation_rotate_halfturn(o, chirality) ==
    CASE o = "NE" -> "SW"
      [] o = "NW" -> "SE"
      [] o = "SE" -> "NW"
      [] o = "SW" -> "NE"

\* Orientation::rotate with one arm of the Clockwise table wrong: SW turns to
\* NE, so NE, SE and SW form a cycle of three.
Orientation_rotate_skips(o, chirality) ==
    CASE o = "NE" /\ chirality = "Clockwise"        -> "SE"
      [] o = "NE" /\ chirality = "CounterClockwise" -> "NW"
      [] o = "NW" /\ chirality = "Clockwise"        -> "NE"
      [] o = "NW" /\ chirality = "CounterClockwise" -> "SW"
      [] o = "SE" /\ chirality = "Clockwise"        -> "SW"
      [] o = "SE" /\ chirality = "CounterClockwise" -> "NE"
      [] o = "SW" /\ chirality = "Clockwise"        -> "NE"
      [] o = "SW" /\ chirality = "CounterClockwise" -> "SE"

Orientation_rotate(o, chirality) ==
    CASE o = "NE" /\ chirality = "Clockwise"        -> "SE"
      [] o = "NE" /\ chirality = "CounterClockwise" -> "NW"
      [] o = "NW" /\ chirality = "Clockwise"        -> "NE"
      [] o = "NW" /\ chirality = "CounterClockwise" -> "SW"
      [] o = "SE" /\ chirality = "Clockwise"        -> "SW"
      [] o = "SE" /\ chirality = "CounterClockwise" -> "NE"
      [] o = "SW" /\ chirality = "Clockwise"        -> "NW"
      [] o = "SW" /\ chirality = "CounterClockwise" -> "SE"

\* -------------------------------------------------------------- reflection

\* Variants of PieceKind::reflect: `family` is the pair of TwoSide
\* orientations that turn South to East, `miss` what a OneSide struck on a
\* non-reflecting side yields.
ReflectVariant(kind, direction, family, miss) ==
    LET reflects(o, d) ==
            \/ o = "NE" /\ d \in {"South", "West"}
            \/ o = "NW" /\ d \in {"South", "East"}
            \/ o = "SE" /\ d \in {"North", "West"}
            \/ o = "SW" /\ d \in {"North", "East"}
    IN  IF kind.tag = "OneSide"
        THEN IF reflects(kind.orientation, direction)
             THEN IF direction \in {"South", "North"}
                  THEN Ok(IF kind.orientation \in {"NE", "SE"} THEN "East" ELSE "West")
                  ELSE Ok(IF kind.orientation \in {"NE", "NW"} THEN "North" ELSE "South")
             ELSE miss
        ELSE IF kind.tag = "TwoSide"
        THEN IF kind.orientation \in family
             THEN Ok(IF direction = "South" THEN "East"
                     ELSE IF direction = "West" THEN "North"
                     ELSE IF direction = "North" THEN "West" ELSE "South")
             ELSE Ok(IF direction = "South" THEN "West"
                     ELSE IF direction = "East" THEN "North"
                     ELSE IF direction = "North" THEN "East" ELSE "South")
        ELSE IF kind.tag = "Block" /\ kind.stacked THEN Err(Some(Block(FALSE)))
        ELSE Err(None)

\* PieceKind::reflect with a OneSide struck on a non-reflecting side left as
\* it is (Err(Some(self))) instead of destroyed (Err(None)).
PieceKind_reflect_absorbing(kind, direction) ==
    ReflectVariant(kind, direction, {"NE", "SW"}, Err(Some(kind)))

\* PieceKind::reflect with the TwoSide families split NE | SE and NW | SW.
PieceKind_reflect_family(kind, direction) ==
    ReflectVariant(kind, direction, {"NE", "SE"}, Err(None))

\* PieceKind::reflect without the arm for a stacked Block: every Block is
\* destroyed by a hit.
PieceKind_reflect_block_removed(kind, direction) ==
    IF kind.tag = "Block" THEN Err(None)
    ELSE ReflectVariant(kind, direction, {"NE", "SW"}, Err(None))

\* PieceKind::reflect with one arm changed: a TwoSide(NE | SW) turns a beam
\* heading North to the East, as it does a beam heading South.
PieceKind_reflect_one_way(kind, direction) ==
    IF kind.tag = "TwoSide" /\ kind.orientation \in {"NE", "SW"} /\ direction = "North"
    THEN Ok("East")
    ELSE ReflectVariant(kind, direction, {"NE", "SW"}, Err(None))

\* Result<CompassQuadrant, Option<PieceKind>>: Ok(new heading), or Err(what
\* the struck piece's kind becomes: None when it is destroyed).
PieceKind_reflect(kind, direction) ==
    CASE kind.tag = "OneSide" ->
           LET o == kind.orientation IN
           IF      o = "NE" /\ direction = "South" THEN Ok("East")
           ELSE IF o = "NE" /\ direction = "West"  THEN Ok("North")
           ELSE IF o = "NW" /\ direction = "South" THEN Ok("West")
           ELSE IF o = "NW" /\ direction = "East"  THEN Ok("North")
           ELSE IF o = "SE" /\ direction = "North" THEN Ok("East")
           ELSE IF o = "SE" /\ direction = "West"  THEN Ok("South")
           ELSE IF o = "SW" /\ direction = "North" THEN Ok("West")
           ELSE IF o = "SW" /\ direction = "East"  THEN Ok("South")
           ELSE Err(None)
      [] kind.tag = "TwoSide" ->
           LET o == kind.orientation IN
           IF      o \in {"NE", "SW"} /\ direction = "South" THEN Ok("East")
           ELSE IF o \in {"NE", "SW"} /\ direction = "West"  THEN Ok("North")
           ELSE IF o \in {"NE", "SW"} /\ direction = "North" THEN Ok("West")
           ELSE IF o \in {"NE", "SW"} /\ direction = "East"  THEN Ok("South")
           ELSE IF o \in {"NW", "SE"} /\ direction = "South" THEN Ok("West")
           ELSE IF o \in {"NW", "SE"} /\ direction = "East"  THEN Ok("North")
           ELSE IF o \in {"NW", "SE"} /\ direction = "North" THEN Ok("East")
           ELSE Ok("South")
      [] kind.tag = "Block" ->
           IF kind.stacked THEN Err(Some(Block(FALSE))) ELSE Err(None)
      [] kind.tag = "King" -> Err(None)

\* Piece::reflect that hands the piece it leaves behind to the other player.
Piece_reflect_changes_side(piece, direction) ==
    LET r == PieceKind_reflect(piece.kind, direction) IN
    IF r.tag = "Ok" THEN Ok(r.val)
    ELSE IF r.err = None THEN Err(None)
    ELSE Err(Some(Piece(Unwrap(r.err),
                        IF piece.allegiance = "Player1" THEN "Player2"
                        ELSE "Player1")))

\* Piece::reflect that leaves Player2's pieces as they are where the code
\* destroys or downgrades them.
Piece_reflect_spares_player2(piece, direction) ==
    LET r == PieceKind_reflect(piece.kind, direction) IN
    IF r.tag = "Ok" THEN Ok(r.val)
    ELSE IF piece.allegiance = "Player2" THEN Err(Some(piece))
    ELSE IF r.err = None THEN Err(None)
    ELSE Err(Some(Piece(Unwrap(r.err), piece.allegiance)))

\* Result<CompassQuadrant, Option<Piece>>
Piece_reflect(piece, direction) ==
    LET r == PieceKind_reflect(piece.kind, direction) IN
    IF r.tag = "Ok" THEN Ok(r.val)
    ELSE IF r.err = None THEN Err(None)
    ELSE Err(Some(Piece(Unwrap(r.err), piece.allegiance)))

\* -------------------------------------------------------------------- laser

Laser_advance(laser) ==
    LET p == add_compass_quadrant(laser.position, laser.direction) IN
    IF p = None THEN None ELSE Some(Laser(Unwrap(p), laser.direction))

\* cast_laser that may leave the laser's own cell untested (test_here =
\* FALSE) and starts looking one cell further on.
RECURSIVE CastVariant(_, _, _)
CastVariant(self, laser, test_here) ==
    IF test_here /\ At(self, laser.position) # None
    THEN Some(<<laser.position, Unwrap(At(self, laser.position))>>)
    ELSE LET next == Laser_advance(laser) IN
         IF next = None THEN None ELSE CastVariant(self, Unwrap(next), TRUE)

cast_laser_skips_start(self, laser) == CastVariant(self, laser, FALSE)

\* Option<(USizeVec2, Piece)>: the first occupied cell on the ray, the
\* laser's own cell included.
RECURSIVE cast_laser(_, _)
cast_laser(self, laser) ==
    IF At(self, laser.position) # None
    THEN Some(<<laser.position, Unwrap(At(self, laser.position))>>)
    ELSE LET next == Laser_advance(laser) IN
         IF next = None THEN None ELSE cast_laser(self, Unwrap(next))

\* The recursion of bounce_laser, entered with `laser` after the laser states
\* in `entered` (the arguments of the enclosing calls, in order).  A call
\* whose argument is already in `entered` repeats an earlier call on the
\* same board, so the recursion never returns: returns = FALSE.
\*   ret       what the call returns: Option<(USizeVec2, Option<Piece>)>
\*   entered   the argument of every nested call, in order
\*   reflected the cells whose piece reflected the laser, in order
RECURSIVE bounce_walk(_, _, _, _)
bounce_walk(self, laser, entered, reflected) ==
    LET now == Append(entered, laser) IN
    IF \E i \in 1 .. Len(entered) : entered[i] = laser
    THEN [returns |-> FALSE, ret |-> None, entered |-> now, reflected |-> reflected]
    ELSE
    LET cast == cast_laser(self, laser) IN
    IF cast = None
    THEN [returns |-> TRUE, ret |-> None, entered |-> now, reflected |-> reflected]
    ELSE
    LET hit_coord == Unwrap(cast)[1]
        hit_piece == Unwrap(cast)[2]
        r == Piece_reflect(hit_piece, laser.direction)
    IN  IF r.tag = "Ok"
        THEN LET next == Laser_advance(Laser(hit_coord, r.val)) IN
             IF next = None
             THEN [returns |-> TRUE, ret |-> None, entered |-> now,
                   reflected |-> Append(reflected, hit_coord)]
             ELSE bounce_walk(self, Unwrap(next), now, Append(reflected, hit_coord))
        ELSE [returns |-> TRUE, ret |-> Some(<<hit_coord, r.err>>),
              entered |-> now, reflected |-> reflected]

\* bounce_laser that resumes, after a reflection, on the mirror's own cell
\* with the new heading (the advance() of line 105 left out).
RECURSIVE bounce_walk_noadvance(_, _, _, _)
bounce_walk_noadvance(self, laser, entered, reflected) ==
    LET now == Append(entered, laser) IN
    IF \E i \in 1 .. Len(entered) : entered[i] = laser
    THEN [returns |-> FALSE, ret |-> None, entered |-> now, reflected |-> reflected]
    ELSE
    LET cast == cast_laser(self, laser) IN
    IF cast = None
    THEN [returns |-> TRUE, ret |-> None, entered |-> now, reflected |-> reflected]
    ELSE
    LET hit_coord == Unwrap(cast)[1]
        hit_piece == Unwrap(cast)[2]
        r == Piece_reflect(hit_piece, laser.direction)
    IN  IF r.tag = "Ok"
        THEN bounce_walk_noadvance(self, Laser(hit_coord, r.val), now,
                                   Append(reflected, hit_coord))
        ELSE [returns |-> TRUE, ret |-> Some(<<hit_coord, r.err>>),
              entered |-> now, reflected |-> reflected]

bounce_laser_noadvance(self, laser) == bounce_walk_noadvance(self, laser, <<>>, <<>>)

\* bounce_laser that takes a reflection off the grid (advance() = None on
\* line 105) for a hit that destroys the mirror, instead of returning None.
RECURSIVE bounce_walk_edge_destroys(_, _, _, _)
bounce_walk_edge_destroys(self, laser, entered, reflected) ==
    LET now == Append(entered, laser) IN
    IF \E i \in 1 .. Len(entered) : entered[i] = laser
    THEN [returns |-> FALSE, ret |-> None, entered |-> now, reflected |-> reflected]
    ELSE
    LET cast == cast_laser(self, laser) IN
    IF cast = None
    THEN [returns |-> TRUE, ret |-> None, entered |-> now, reflected |-> reflected]
    ELSE
    LET hit_coord == Unwrap(cast)[1]
        hit_piece == Unwrap(cast)[2]
        r == Piece_reflect(hit_piece, laser.direction)
    IN  IF r.tag = "Ok"
        THEN LET next == Laser_advance(Laser(hit_coord, r.val)) IN
             IF next = None
             THEN [returns |-> TRUE, ret |-> Some(<<hit_coord, None>>),
                   entered |-> now, reflected |-> Append(reflected, hit_coord)]
             ELSE bounce_walk_edge_destroys(self, Unwrap(next), now,
                                            Append(reflected, hit_coord))
        ELSE [returns |-> TRUE, ret |-> Some(<<hit_coord, r.err>>),
              entered |-> now, reflected |-> reflected]

bounce_laser_edge_destroys(self, laser) ==
    bounce_walk_edge_destroys(self, laser, <<>>, <<>>)

bounce_laser(self, laser) == bounce_walk(self, laser, <<>>, <<>>)

\* ------------------------------------------------------------------- moves

\* Variants of try_move_piece: with the bounds test ahead of the tests of the
\* from cell (bounds_first), with a step onto the other player's piece
\* allowed (captures), with the source cell left as it was (keeps_source).
TryMovePieceVariant(self, player_move, player, bounds_first, captures, keeps_source) ==
    LET from == player_move.from
        is_move == player_move.kind.tag = "Move"
        to == IF is_move THEN add_compass_octant(from, player_move.kind.direction)
              ELSE None
    IN
    IF bounds_first /\ is_move /\ to = None THEN Err("OutOfBounds")
    ELSE IF At(self, from) = None THEN Err("NoPieceAtFrom")
    ELSE
    LET piece == Unwrap(At(self, from)) IN
    IF piece.allegiance # player THEN Err("NotYourPiece")
    ELSE IF is_move
    THEN IF to = None THEN Err("OutOfBounds")
         ELSE IF /\ At(self, Unwrap(to)) # None
                 /\ ~(captures /\ Unwrap(At(self, Unwrap(to))).allegiance # player)
              THEN Err("DestinationOccupied")
         ELSE IF keeps_source THEN Ok(SetCell(self, Unwrap(to), At(self, from)))
         ELSE Ok(SetCell(SetCell(self, Unwrap(to), At(self, from)), from, None))
    ELSE IF piece.kind.tag \in {"King", "Block"} THEN Err("CannotRotate")
         ELSE LET new_kind ==
                    [piece.kind EXCEPT
                        !.orientation =
                            Orientation_rotate(@, player_move.kind.chirality)]
              IN  Ok(SetCell(self, from, Some(Piece(new_kind, piece.allegiance))))

try_move_piece_bounds_first(self, player_move, player) ==
    TryMovePieceVariant(self, player_move, player, TRUE, FALSE, FALSE)

try_move_piece_captures(self, player_move, player) ==
    TryMovePieceVariant(self, player_move, player, FALSE, TRUE, FALSE)

try_move_piece_keeps_source(self, player_move, player) ==
    TryMovePieceVariant(self, player_move, player, FALSE, FALSE, TRUE)

\* Result<Board, InvalidMove>; `self` is taken by value, the caller's board
\* is not touched.
try_move_piece(self, player_move, player) ==
    LET from == player_move.from IN
    IF At(self, from) = None THEN Err("NoPieceAtFrom")
    ELSE
    LET piece == Unwrap(At(self, from)) IN
    IF piece.allegiance # player THEN Err("NotYourPiece")
    ELSE IF player_move.kind.tag = "Move"
    THEN LET to == add_compass_octant(from, player_move.kind.direction) IN
         IF to = None THEN Err("OutOfBounds")
         ELSE IF At(self, Unwrap(to)) # None THEN Err("DestinationOccupied")
         ELSE Ok(SetCell(SetCell(self, Unwrap(to), At(self, from)), from, None))
    ELSE IF piece.kind.tag \in {"King", "Block"} THEN Err("CannotRotate")
         ELSE LET new_kind ==
                    [piece.kind EXCEPT
                        !.orientation =
                            Orientation_rotate(@, player_move.kind.chirality)]
              IN  Ok(SetCell(self, from, Some(Piece(new_kind, piece.allegiance))))

\* The laser each player fires.
PlayerLaser(player) ==
    IF player = "Player1"
    THEN Laser(usizevec2(7, 0), "North")
    ELSE Laser(usizevec2(0, 7), "South")

\* try_move that writes the laser's outcome to cell[hit.x][hit.y] (the
\* indices swapped) instead of cell[hit.y][hit.x].
try_move_swapped_hit(self, player_move, player) ==
    LET moved == try_move_piece(self, player_move, player) IN
    IF moved.tag = "Err"
    THEN [result |-> Err(moved.err), board |-> self, fired |-> FALSE]
    ELSE LET walk == bounce_laser(moved.val, PlayerLaser(player)) IN
         [result |-> Ok(<<>>),
          board  |-> IF walk.ret = None THEN moved.val
                     ELSE SetCell(moved.val,
                                  usizevec2(Unwrap(walk.ret)[1].y, Unwrap(walk.ret)[1].x),
                                  Unwrap(walk.ret)[2]),
          fired  |-> TRUE,
          moved  |-> moved.val,
          walk   |-> walk]

\* try_move that resolves the laser on the board as it stood before the
\* piece was moved, and writes the outcome to the board after the move.
try_move_fires_before(self, player_move, player) ==
    LET moved == try_move_piece(self, player_move, player) IN
    IF moved.tag = "Err"
    THEN [result |-> Err(moved.err), board |-> self, fired |-> FALSE]
    ELSE LET walk == bounce_laser(self, PlayerLaser(player)) IN
         [result |-> Ok(<<>>),
          board  |-> IF walk.ret = None THEN moved.val
                     ELSE SetCell(moved.val, Unwrap(walk.ret)[1], Unwrap(walk.ret)[2]),
          fired  |-> TRUE,
          moved  |-> moved.val,
          walk   |-> walk]

\* try_move that fires the laser whether or not the move was accepted.
try_move_fires_always(self, player_move, player) ==
    LET moved == try_move_piece(self, player_move, player)
        board == IF moved.tag = "Err" THEN self ELSE moved.val
        walk  == bounce_laser(board, PlayerLaser(player))
        after == IF walk.ret = None THEN board
                 ELSE SetCell(board, Unwrap(walk.ret)[1], Unwrap(walk.ret)[2])
    IN  IF moved.tag = "Err"
        THEN [result |-> Err(moved.err), board |-> after, fired |-> FALSE]
        ELSE [result |-> Ok(<<>>), board |-> after, fired |-> TRUE,
              moved |-> moved.val, walk |-> walk]

\* What try_move leaves behind: its return value, the board, and as a record
\* of the call the board try_move_piece produced and the laser walk.
try_move(self, player_move, player) ==
    LET moved == try_move_piece(self, player_move, player) IN
    IF moved.tag = "Err"
    THEN [result |-> Err(moved.err), board |-> self, fired |-> FALSE]
    ELSE LET walk == bounce_laser(moved.val, PlayerLaser(player)) IN
         [result |-> Ok(<<>>),
          board  |-> IF walk.ret = None THEN moved.val
                     ELSE SetCell(moved.val, Unwrap(walk.ret)[1], Unwrap(walk.ret)[2]),
          fired  |-> TRUE,
          moved  |-> moved.val,
          walk   |-> walk]

\* ---------------------------------------------------------------- game over

\* Board::game_over with the test `< 1`: over only once no king is left.
game_over_no_king_left(self) ==
    Cardinality({pos \in Positions :
                    /\ At(self, pos) # None
                    /\ Unwrap(At(self, pos)).kind = King}) < 1

\* The cells holding a king (of either player) counted, and compared with 2.
game_over(self) ==
    Cardinality({pos \in Positions :
                    /\ At(self, pos) # None
                    /\ Unwrap(At(self, pos)).kind = King}) < 2

\* ------------------------------------------------------------ input boards

\* A board holding the pieces of `placed`, a set of <<position, piece>> with
\* distinct positions (board.cell[y][x] = Some(piece) on an empty board).
BoardOf(placed) ==
    [y \in Coords |-> [x \in Coords |->
        IF \E pl \in placed : pl[1] = usizevec2(x, y)
        THEN Some((CHOOSE pl \in placed : pl[1] = usizevec2(x, y))[2])
        ELSE None]]

\* start_game with the two kings' rows exchanged: cell[7][4] and cell[0][3].
StartBoard_rows_exchanged ==
    BoardOf({<<usizevec2(4, 7), Piece(King, "Player2")>>,
             <<usizevec2(3, 0), Piece(King, "Player1")>>})

\* The board start_game builds: the two kings.
StartBoard ==
    BoardOf({<<usizevec2(4, 0), Piece(King, "Player2")>>,
             <<usizevec2(3, 7), Piece(King, "Player1")>>})

\* Every board with exactly one piece.
OnePieceBoards == {BoardOf({<<pos, p>>}) : pos \in Positions, p \in Pieces}

\* Player1's king, one column from Player1's laser column, next to one more
\* piece: any piece, in any of the 8 octants.
PairAnchor == usizevec2(6, 3)

PairBoards ==
    {BoardOf({<<PairAnchor, Piece(King, "Player1")>>,
              <<Unwrap(add_compass_octant(PairAnchor, d)), p>>}) :
        d \in Octants, p \in Pieces}

\* Four of Player1's mirrors on the corners of a rectangle with one side on
\* column 7, the column Player1's laser starts in.  The first two kinds of
\* each corner pass a beam on around the rectangle (A to B to C to D and
\* back to A, or the other way round); the others are a rotation away or
\* turn the beam out of the rectangle.
RingA == usizevec2(7, 2)

RingB == usizevec2(4, 2)

RingC == usizevec2(4, 5)

RingD == usizevec2(7, 5)

RingKindsA == {OneSide("SW"), TwoSide("NE"), OneSide("NW"), TwoSide("NW")}

RingKindsB == {OneSide("NE"), TwoSide("NE"), OneSide("NW")}

RingKindsC == {OneSide("SE"), TwoSide("NW"), OneSide("NE")}

RingKindsD == {OneSide("SW"), TwoSide("NE"), OneSide("NW")}

RingBoards ==
    {BoardOf({<<RingA, Piece(ka, "Player1")>>, <<RingB, Piece(kb, "Player1")>>,
              <<RingC, Piece(kc, "Player1")>>, <<RingD, Piece(kd, "Player1")>>}) :
        ka \in RingKindsA, kb \in RingKindsB, kc \in RingKindsC, kd \in RingKindsD}

InitBoards ==
    {EmptyBoard, StartBoard} \cup OnePieceBoards \cup PairBoards \cup RingBoards

Occupied(board) == {pos \in Positions : At(board, pos) # None}

\* The from cells tried on a board: every occupied cell and one corner.
ProbeCells == {usizevec2(0, 0)}

FromCells(board) == Occupied(board) \cup ProbeCells

\* ------------------------------------------------------------ state machine

\* No server session: the calls below are made on a board directly.
NoClients == [p \in {"Player1", "Player2"} |-> [pc |-> "absent"]]

NoLobby == [pc |-> "off"]

NoSession ==
    /\ pc = "idle"
    /\ sent_move = <<>>
    /\ inbox = [p \in {"Player1", "Player2"} |-> <<>>]
    /\ outbox = [p \in {"Player1", "Player2"} |-> <<>>]
    /\ client = NoClients
    /\ lobby = NoLobby


Init ==
    /\ cell \in InitBoards
    /\ last = [op |-> "none"]
    /\ calls = 0
    /\ NoSession

\* board.try_move(&player_move, player) on the board `cell`.
TryMove(player_move, player) ==
    LET r == try_move(cell, player_move, player) IN
    /\ calls < MaxCalls
    /\ cell' = r.board
    /\ calls' = calls + 1
    /\ last' = [op |-> "try_move", player |-> player, move |-> player_move,
                before |-> cell, call |-> r]
    /\ UNCHANGED session

Next ==
    \E from \in FromCells(cell), kind \in MoveKinds, player \in Players :
        TryMove(Move(from, kind), player)

Spec == Init /\ [][Next]_vars

\* Piece::reflect applied to one piece and heading, outside any board.
InitReflect ==
    /\ cell = EmptyBoard
    /\ calls = 0
    /\ last \in {[op |-> "reflect_input", piece |-> p, direction |-> d] :
                    p \in Pieces, d \in Quadrants}
    /\ NoSession

Reflect ==
    /\ last.op = "reflect_input"
    /\ last' = [op |-> "reflect", piece |-> last.piece, direction |-> last.direction,
                out |-> Piece_reflect(last.piece, last.direction)]
    /\ UNCHANGED <<cell, calls>>
    /\ UNCHANGED session

NextReflect == Reflect

SpecReflect == InitReflect /\ [][NextReflect]_vars

\* One mirror (OneSide or TwoSide, any orientation, either player) on any
\* cell, rotated again and again by its owner with one chirality through
\* try_move_piece.
MirrorBoards ==
    {BoardOf({<<pos, p>>}) :
        pos \in Positions,
        p \in {q \in Pieces : q.kind.tag \in {"OneSide", "TwoSide"}}}

InitRotate ==
    /\ cell \in MirrorBoards
    /\ calls = 0
    /\ \E from \in Occupied(cell), chirality \in Chiralities :
          last = [op |-> "rotate_input", start |-> cell, from |-> from,
                  player |-> Unwrap(At(cell, from)).allegiance,
                  chirality |-> chirality]
    /\ NoSession

\* board = board.try_move_piece(&Move { from, kind: Rotate(chirality) }, player)?
RotatePiece ==
    LET r == try_move_piece(cell,
                            Move(last.from, [tag |-> "Rotate", chirality |-> last.chirality]),
                            last.player)
    IN  /\ last.op \in {"rotate_input", "rotate"}
        /\ calls < MaxRotations
        /\ cell' = IF r.tag = "Ok" THEN r.val ELSE cell
        /\ calls' = calls + 1
        /\ last' = [op |-> "rotate", start |-> last.start, from |-> last.from,
                    player |-> last.player, chirality |-> last.chirality,
                    result |-> r]
        /\ UNCHANGED session

NextRotate == RotatePiece

SpecRotate == InitRotate /\ [][NextRotate]_vars

\* Boards for successive turns: a stacked Block (of either player) in a
\* laser's path with one more piece behind it, where the laser would go on.
\*   column 7, Player1's laser:   block (7,3), behind it Player1's piece (7,5)
\*   column 0, Player2's laser:   block (0,4), behind it Player2's piece (0,2)
\*   row 1, Player1's laser turned West by Player1's OneSide(SW) on (7,1):
\*                                block (5,1), behind it Player2's piece (2,1)
BehindKinds == {King, Block(FALSE), OneSide("NE")}

BlockBoards ==
    {BoardOf({<<usizevec2(7, 3), Piece(Block(TRUE), a)>>,
              <<usizevec2(7, 5), Piece(k, "Player1")>>}) :
        a \in Players, k \in BehindKinds}
    \cup
    {BoardOf({<<usizevec2(0, 4), Piece(Block(TRUE), a)>>,
              <<usizevec2(0, 2), Piece(k, "Player2")>>}) :
        a \in Players, k \in BehindKinds}
    \cup
    {BoardOf({<<usizevec2(7, 1), Piece(OneSide("SW"), "Player1")>>,
              <<usizevec2(5, 1), Piece(Block(TRUE), a)>>,
              <<usizevec2(2, 1), Piece(k, "Player2")>>}) :
        a \in Players, k \in BehindKinds \ {King}}

\* The cells of the blocks a laser has downgraded so far, after one more call
\* `r` of try_move with `player_move`: a downgraded block that is moved takes
\* its mark along, a block the laser removes loses it.
Downgraded(marks, player_move, r) ==
    IF r.result.tag = "Err" THEN marks
    ELSE
    LET from  == player_move.from
        stepped == IF player_move.kind.tag = "Move" /\ from \in marks
                   THEN (marks \ {from})
                        \cup {Unwrap(add_compass_octant(from, player_move.kind.direction))}
                   ELSE marks
    IN  IF r.walk.ret = None THEN stepped
        ELSE LET hit == Unwrap(r.walk.ret)[1] IN
             IF Unwrap(At(r.moved, hit)).kind = Block(TRUE)
             THEN stepped \cup {hit}
             ELSE stepped \ {hit}

InitBlock ==
    /\ cell \in BlockBoards
    /\ last = [op |-> "none", downgraded |-> {}]
    /\ calls = 0
    /\ NoSession

\* board.try_move(&player_move, player), one call after another on the same
\* board.
Turn(player_move, player) ==
    LET r == try_move(cell, player_move, player) IN
    /\ calls < MaxTurns
    /\ cell' = r.board
    /\ calls' = calls + 1
    /\ last' = [op |-> "try_move", player |-> player, move |-> player_move,
                before |-> cell, call |-> r,
                before_marks |-> last.downgraded,
                downgraded |-> Downgraded(last.downgraded, player_move, r)]
    /\ UNCHANGED session

NextBlock ==
    \E from \in Occupied(cell), kind \in MoveKinds, player \in Players :
        Turn(Move(from, kind), player)

SpecBlock == InitBlock /\ [][NextBlock]_vars

\* Boards of a game under way or ended: for each player the king on one of
\* a few cells or gone (no operation adds a piece, so a board never holds
\* two kings of one player), and possibly one more piece that is no king.
KingCells == {usizevec2(x, y) : x \in {0, 3, 4, 7}, y \in {0, 3, 7}}

ExtraPieces ==
    {{}, {<<usizevec2(5, 5), Piece(Block(TRUE), "Player1")>>},
         {<<usizevec2(5, 5), Piece(OneSide("NW"), "Player2")>>}}

KingBoards ==
    LET kings(player) == {{}} \cup {{<<pos, Piece(King, player)>>} : pos \in KingCells}
        apart(k1, k2) == \A a \in k1, b \in k2 : a[1] # b[1]
    IN  {BoardOf(ks[1] \cup ks[2] \cup extra) :
            ks \in {q \in kings("Player1") \X kings("Player2") : apart(q[1], q[2])},
            extra \in ExtraPieces}

InitGameOver ==
    /\ cell \in KingBoards
    /\ last = [op |-> "game_over_input"]
    /\ calls = 0
    /\ NoSession

\* board.game_over()
GameOver ==
    /\ last.op = "game_over_input"
    /\ last' = [op |-> "game_over", out |-> game_over(cell)]
    /\ UNCHANGED <<cell, calls>>
    /\ UNCHANGED session

NextGameOver == GameOver

SpecGameOver == InitGameOver /\ [][NextGameOver]_vars

\* Boards of games: the starting board, the boards with a stacked block in a
\* laser's path, and boards late in a game: each king one step from a cell a
\* laser reaches, with or without one more piece in Player1's laser column.
LateExtras ==
    {{}, {<<usizevec2(7, 4), Piece(Block(TRUE), "Player2")>>},
         {<<usizevec2(7, 1), Piece(OneSide("SW"), "Player1")>>}}

LateBoards ==
    {BoardOf({<<k1, Piece(King, "Player1")>>, <<k2, Piece(King, "Player2")>>}
             \cup extra) :
        k1 \in {usizevec2(1, 7), usizevec2(6, 7)},
        k2 \in {usizevec2(1, 0), usizevec2(6, 0)},
        extra \in LateExtras}

GameBoards == {StartBoard} \cup BlockBoards \cup LateBoards

InitGame ==
    /\ cell \in GameBoards
    /\ last = [op |-> "none", downgraded |-> {}]
    /\ calls = 0
    /\ NoSession

\* Calls of try_move one after another, of any piece on the board for either
\* player.
NextGame ==
    \E from \in Occupied(cell), kind \in MoveKinds, player \in Players :
        Turn(Move(from, kind), player)

SpecGame == InitGame /\ [][NextGame]_vars

\* ---------------------------------------------------------- server session
\* start_game (src/src/bin/server.rs) for one pair of connected players,
\* from the point where both InitialSetup messages have been sent.

Other(player) == IF player = "Player1" THEN "Player2" ELSE "Player1"

\* ClientRequest, as it arrives on a player's connection.  InitialSetup
\* stands for any request that is not a Move (its player_name is left out),
\* Malformed for a frame client_request cannot turn into a ClientRequest
\* (not text, not JSON of a ClientRequest, or the connection closed).
\* `turn` is not part of the message: it records which player's move the
\* server was waiting for when the request was sent.
MoveRequest(move, turn) == [type |-> "Move", move |-> move, turn |-> turn]

\* The moves the clients ask for: one step West.
SessionMoveKinds == {[tag |-> "Move", direction |-> "West"]}

\* ServerMessage
InitialSetupMessage(board, player_order) ==
    [type |-> "InitialSetup", board |-> board, player_order |-> player_order]

OpponentMoved(move) == [type |-> "OpponentMoved", move |-> move]

\* The player whose move start_game applies next: Player1 first, then the
\* players in turn, one applied move each.
OnTurn == IF calls % 2 = 0 THEN "Player1" ELSE "Player2"

AwaitPc(player) ==
    IF player = "Player1" THEN "await_player1" ELSE "await_player2"

NotifyPc(player) ==
    IF player = "Player1" THEN "notify_player1" ELSE "notify_player2"

InitSession ==
    /\ cell = StartBoard
    /\ calls = 0
    /\ last = [op |-> "start", mover |-> "none"]
    /\ pc = "while"
    /\ sent_move = None
    /\ inbox = [p \in Players |-> <<>>]
    /\ outbox = [p \in Players |->
                    <<InitialSetupMessage(StartBoard, IF p = "Player1" THEN 0 ELSE 1)>>]
    /\ client = NoClients
    /\ lobby = NoLobby

\* A player's client sends a request, whoever is on turn.
ClientSend(player, request) ==
    /\ pc \notin {"idle", "done", "failed"}
    /\ Len(inbox[player]) < MaxInbox
    /\ inbox' = [inbox EXCEPT ![player] = Append(@, request)]
    /\ UNCHANGED <<cell, last, calls, pc, sent_move, outbox, client, lobby>>

\* A player's client reads the next message from the server.
ClientRecv(player) ==
    /\ pc # "idle"
    /\ outbox[player] # <<>>
    /\ outbox' = [outbox EXCEPT ![player] = Tail(@)]
    /\ UNCHANGED <<cell, last, calls, pc, sent_move, inbox, client, lobby>>

\* while !board_state.game_over()
WhileNotGameOver ==
    /\ pc = "while"
    /\ pc' = IF game_over(cell) THEN "done" ELSE "await_player1"
    /\ UNCHANGED <<cell, last, calls, sent_move, inbox, outbox, client, lobby>>

\* One round of the inner loop for `player`: client_request(player).await?
\* and, for a Move, board_state.try_move.  `passes_turn` = FALSE is the code:
\* after a rejected move or a request that is no Move the loop goes round
\* and awaits the same player again.
AwaitVariant(player, passes_turn) ==
    /\ pc = AwaitPc(player)
    /\ inbox[player] # <<>>
    /\ LET request == Head(inbox[player])
           seen == [op |-> "recv", player |-> player, request |-> request,
                    before |-> cell, mover |-> last.mover]
       IN  /\ inbox' = [inbox EXCEPT ![player] = Tail(@)]
           /\ UNCHANGED <<outbox, client, lobby>>
           /\ IF request.type = "Malformed"
              THEN /\ pc' = "failed"
                   /\ last' = [seen EXCEPT !.op = "recv_failed"]
                   /\ UNCHANGED <<cell, calls, sent_move>>
              ELSE IF request.type # "Move"
              THEN /\ pc' = IF passes_turn THEN AwaitPc(Other(player)) ELSE pc
                   /\ last' = [seen EXCEPT !.op = "recv_other"]
                   /\ UNCHANGED <<cell, calls, sent_move>>
              ELSE LET r == try_move(cell, request.move, player) IN
                   IF r.result.tag = "Ok"
                   THEN /\ cell' = r.board
                        /\ calls' = calls + 1
                        /\ sent_move' = Some(request.move)
                        /\ pc' = NotifyPc(Other(player))
                        /\ last' = [op |-> "applied", player |-> player,
                                    request |-> request, before |-> cell,
                                    mover |-> player, prev_mover |-> last.mover]
                   ELSE /\ pc' = IF passes_turn THEN AwaitPc(Other(player)) ELSE pc
                        /\ last' = [op |-> "rejected", player |-> player,
                                    request |-> request, before |-> cell,
                                    mover |-> last.mover, err |-> r.result.err]
                        /\ UNCHANGED <<cell, calls, sent_move>>

\* The inner loop that lets the other player have the turn after a rejected
\* move or a request that is no Move.
AwaitMove_passes_turn(player) == AwaitVariant(player, TRUE)

AwaitMove(player) == AwaitVariant(player, FALSE)

\* start_game without `if board_state.game_over() { break; }` after Player1's
\* move: Player2 is awaited whatever the board.
NotifyOpponent_no_break(player) ==
    /\ pc = NotifyPc(player)
    /\ Len(outbox[player]) < MaxOutbox
    /\ outbox' = [outbox EXCEPT ![player] = Append(@, OpponentMoved(Unwrap(sent_move)))]
    /\ sent_move' = None
    /\ pc' = IF player = "Player1" THEN "while" ELSE "await_player2"
    /\ UNCHANGED <<cell, last, calls, inbox, client, lobby>>

\* player.connection.send(OpponentMoved(player_move)).await? to the player
\* who did not move, then `if board_state.game_over() { break; }` after
\* Player1's move, the head of the while loop after Player2's.
NotifyOpponent(player) ==
    /\ pc = NotifyPc(player)
    /\ Len(outbox[player]) < MaxOutbox
    /\ outbox' = [outbox EXCEPT ![player] = Append(@, OpponentMoved(Unwrap(sent_move)))]
    /\ sent_move' = None
    /\ pc' = IF player = "Player1" THEN "while"
             ELSE IF game_over(cell) THEN "done" ELSE "await_player2"
    /\ UNCHANGED <<cell, last, calls, inbox, client, lobby>>

\* The send fails (the connection is gone): start_game returns the error.
SendFails(player) ==
    /\ pc = NotifyPc(player)
    /\ sent_move' = None
    /\ pc' = "failed"
    /\ UNCHANGED <<cell, last, calls, inbox, outbox, client, lobby>>

\* What a client may send: a Move of either king as the board stands (by
\* the time it is read the king may have left the from cell, may be at the
\* west edge, or may be the other player's), a request that is no Move, or
\* a malformed frame.
Requests ==
    {MoveRequest(Move(from, kind), OnTurn) :
        from \in Occupied(cell), kind \in SessionMoveKinds}
    \cup {[type |-> "InitialSetup"], [type |-> "Malformed"]}

NextSession ==
    \/ \E player \in Players, request \in Requests : ClientSend(player, request)
    \/ \E player \in Players : ClientRecv(player)
    \/ WhileNotGameOver
    \/ \E player \in Players : AwaitMove(player)
    \/ \E player \in Players : NotifyOpponent(player)
    \/ \E player \in Players : SendFails(player)

SpecSession == InitSession /\ [][NextSession]_vars

\* ------------------------------------------------------ command-line client
\* main of src/src/bin/client-cli.rs for each of the two players of one
\* session, against start_game.  The connections are reliable and stay open.

\* Moves a player sends in one behaviour.
MaxSent == 4

\* What the players type at the prompt: a step West or East, or a rotation,
\* of either king.
CliMoveKinds ==
    {[tag |-> "Move", direction |-> "West"], [tag |-> "Move", direction |-> "East"],
     [tag |-> "Rotate", chirality |-> "Clockwise"]}

\* The from cells a player types: the pieces on the board the client shows.
CliFromCells(p) ==
    IF client[p].pc \in {"first_turn", "player_turn"}
    THEN Occupied(client[p].board) ELSE {}

\* Player::from_index
Player_from_index(index) ==
    IF index = 0 THEN Some("Player1")
    ELSE IF index = 1 THEN Some("Player2") ELSE None

InitCli ==
    /\ cell = StartBoard
    /\ calls = 0
    /\ last = [op |-> "start", mover |-> "none"]
    /\ pc = "while"
    /\ sent_move = None
    /\ inbox = [p \in Players |-> <<>>]
    /\ outbox = [p \in Players |->
                    <<InitialSetupMessage(StartBoard, IF p = "Player1" THEN 0 ELSE 1)>>]
    /\ client = [p \in Players |->
                    [pc |-> "await_setup", board |-> None, player_order |-> None,
                     sent |-> 0, moves |-> 0, note |-> "waiting"]]
    /\ lobby = NoLobby

\* The client reads the server's first message: the board and its order.
\* The player who goes first takes one turn before the loop.
CliSetup(p) ==
    /\ client[p].pc = "await_setup"
    /\ outbox[p] # <<>>
    /\ LET msg == Head(outbox[p]) IN
       /\ outbox' = [outbox EXCEPT ![p] = Tail(@)]
       /\ client' = [client EXCEPT ![p] =
            IF msg.type # "InitialSetup"
            THEN [@ EXCEPT !.pc = "returned", !.note = "no setup"]
            ELSE IF Player_from_index(msg.player_order) = None
            THEN [@ EXCEPT !.pc = "panicked", !.note = "no such player"]
            ELSE [@ EXCEPT !.board = msg.board,
                           !.player_order = Unwrap(Player_from_index(msg.player_order)),
                           !.pc = IF msg.player_order = 0 THEN "first_turn"
                                  ELSE "opponent_turn",
                           !.note = "board shown"]]
    /\ UNCHANGED <<cell, last, calls, pc, sent_move, inbox, lobby>>

\* player_turn and the send of its message: the move typed is tried on the
\* local board; a move the local board rejects is asked for again, a move
\* it accepts is sent, and (except after the turn before the loop) the loop
\* ends if the local board is game over.
CliPlayerTurn(p, player_move) ==
    /\ client[p].pc \in {"first_turn", "player_turn"}
    /\ client[p].sent < MaxSent
    /\ \E r \in {try_move(client[p].board, player_move, client[p].player_order)} :
       IF r.result.tag = "Ok"
       THEN /\ inbox' = [inbox EXCEPT ![p] = Append(@, MoveRequest(player_move, OnTurn))]
            /\ client' = [client EXCEPT
                 ![p].board = r.board,
                 ![p].sent = @ + 1,
                 ![p].moves = @ + 1,
                 ![p].note = "sent",
                 ![p].pc = IF client[p].pc = "player_turn" /\ game_over(r.board)
                           THEN "game_over" ELSE "opponent_turn"]
       ELSE /\ client' = [client EXCEPT ![p].note = "invalid move"]
            /\ UNCHANGED inbox
    /\ UNCHANGED <<cell, last, calls, pc, sent_move, outbox, lobby>>

\* The head of the loop: the next message from the server goes through
\* opponent_turn, the opponent's move is applied to the local board
\* (`applies_laser` = TRUE is the code: try_move, not only try_move_piece),
\* and the loop ends if the board is game over.
CliOpponentVariant(p, applies_laser) ==
    /\ client[p].pc = "opponent_turn"
    /\ outbox[p] # <<>>
    /\ \E msg \in {Head(outbox[p])} :
       /\ outbox' = [outbox EXCEPT ![p] = Tail(@)]
       /\ IF msg.type # "OpponentMoved"
          THEN client' = [client EXCEPT ![p].pc = "stuck",
                                        ![p].note = "expected OpponentMoved"]
          ELSE \E r \in {try_move(client[p].board, msg.move,
                                  Other(client[p].player_order))} :
               IF r.result.tag = "Err"
               THEN client' = [client EXCEPT ![p].pc = "panicked",
                                             ![p].note = "unwrap"]
               ELSE \E after \in {IF applies_laser THEN r.board ELSE r.moved} :
                    client' = [client EXCEPT
                        ![p].board = after,
                        ![p].moves = @ + 1,
                        ![p].note = "opponent moved",
                        ![p].pc = IF game_over(after) THEN "game_over"
                                  ELSE "player_turn"]
    /\ UNCHANGED <<cell, last, calls, pc, sent_move, inbox, lobby>>

\* A client that moves the opponent's piece on its board and leaves the
\* laser out.
CliOpponentTurn_no_laser(p) == CliOpponentVariant(p, FALSE)

CliOpponentTurn(p) == CliOpponentVariant(p, TRUE)

NextCli ==
    \/ \E p \in Players : CliSetup(p)
    \/ \E p \in Players : \E from \in CliFromCells(p), kind \in CliMoveKinds :
            CliPlayerTurn(p, Move(from, kind))
    \/ \E p \in Players : CliOpponentTurn(p)
    \/ WhileNotGameOver
    \/ \E player \in Players : AwaitMove(player)
    \/ \E player \in Players : NotifyOpponent(player)

SpecCli == InitCli /\ [][NextCli]_vars

\* ------------------------------------------------------------ bounce_laser
\* Board::bounce_laser called with any laser of the grid, on the boards of
\* the try_move calls that hold more than one piece, the empty board and the
\* starting board.

BounceBoards == {EmptyBoard, StartBoard} \cup PairBoards \cup RingBoards

Lasers == {Laser(pos, d) : pos \in Positions, d \in Quadrants}

InitBounce ==
    /\ cell \in BounceBoards
    /\ calls = 0
    /\ last \in {[op |-> "bounce_input", laser |-> l] : l \in Lasers}
    /\ NoSession

\* self.bounce_laser(laser)
Bounce ==
    /\ last.op = "bounce_input"
    /\ last' = [op |-> "bounce", laser |-> last.laser,
                out |-> bounce_laser(cell, last.laser)]
    /\ UNCHANGED <<cell, calls>>
    /\ UNCHANGED session

NextBounce == Bounce

SpecBounce == InitBounce /\ [][NextBounce]_vars

\* --------------------------------------------------------------- matchmaking
\* websocket_handler, matchmaking_loop and connect_player of
\* src/src/bin/server.rs.  A connection is named by its place in the order
\* of arrival: 1 for the first socket sent into the matchmaking channel.

\* Connections upgraded in one behaviour.
MaxConnections == 5

Connections == 1 .. MaxConnections

\* What connect_player may find as a connection's first message: a
\* ClientRequest::InitialSetup, another ClientRequest, or no text message
\* (the connection closed, an error, a binary frame, text that does not
\* parse).
FirstMessages == {"InitialSetup", "Move", "NoRequest"}

\* start_game([player1, player2]): the first of the pair is sent
\* player_order 0, the second player_order 1.
start_game_orders(players) ==
    [player_order0 |-> players[1], player_order1 |-> players[2]]

InitMatch ==
    /\ cell = EmptyBoard
    /\ calls = 0
    /\ last = [op |-> "none"]
    /\ pc = "idle"
    /\ sent_move = None
    /\ inbox = [p \in Players |-> <<>>]
    /\ outbox = [p \in Players |-> <<>>]
    /\ client = NoClients
    /\ lobby = [pc |-> "recv_player1", queue |-> <<>>, arrived |-> 0,
                player1 |-> None, player2 |-> None,
                setup |-> [c \in Connections |-> "none"],
                first |-> [c \in Connections |-> "unread"],
                games |-> <<>>]

\* websocket_handler: an upgraded socket is sent into the channel.
WebsocketHandler ==
    /\ lobby.pc # "off"
    /\ lobby.arrived < MaxConnections
    /\ lobby' = [lobby EXCEPT !.arrived = @ + 1,
                              !.queue = Append(@, lobby.arrived + 1)]
    /\ UNCHANGED <<cell, last, calls, pc, sent_move, inbox, outbox, client>>

\* matchmaking_rx.recv().await for the first player of a pair, and the spawn
\* of its connect_player.
RecvPlayer1 ==
    /\ lobby.pc = "recv_player1"
    /\ lobby.queue # <<>>
    /\ lobby' = [lobby EXCEPT !.queue = Tail(@),
                              !.player1 = Some(Head(lobby.queue)),
                              !.setup[Head(lobby.queue)] = "pending",
                              !.pc = "recv_player2"]
    /\ UNCHANGED <<cell, last, calls, pc, sent_move, inbox, outbox, client>>

\* The same for the second player of the pair.
RecvPlayer2 ==
    /\ lobby.pc = "recv_player2"
    /\ lobby.queue # <<>>
    /\ lobby' = [lobby EXCEPT !.queue = Tail(@),
                              !.player2 = Some(Head(lobby.queue)),
                              !.setup[Head(lobby.queue)] = "pending",
                              !.pc = "join"]
    /\ UNCHANGED <<cell, last, calls, pc, sent_move, inbox, outbox, client>>

\* connect_player(connection): Ok for an InitialSetup, Err for anything else.
ConnectPlayer(conn, message) ==
    /\ lobby.pc # "off"
    /\ lobby.setup[conn] = "pending"
    /\ lobby' = [lobby EXCEPT !.first[conn] = message,
                              !.setup[conn] = IF message = "InitialSetup"
                                              THEN "Ok" ELSE "Err"]
    /\ UNCHANGED <<cell, last, calls, pc, sent_move, inbox, outbox, client>>

\* try_join!(player1, player2), the let-else on both results, and the spawn
\* of start_game; `swapped` = FALSE is the code: start_game([player1,
\* player2]).
JoinVariant(swapped) ==
    /\ lobby.pc = "join"
    /\ LET c1 == Unwrap(lobby.player1)
           c2 == Unwrap(lobby.player2)
       IN  /\ lobby.setup[c1] # "pending"
           /\ lobby.setup[c2] # "pending"
           /\ lobby' = [lobby EXCEPT
                  !.pc = "recv_player1",
                  !.player1 = None,
                  !.player2 = None,
                  !.games = IF lobby.setup[c1] = "Ok" /\ lobby.setup[c2] = "Ok"
                            THEN Append(@, start_game_orders(
                                     IF swapped THEN <<c2, c1>> ELSE <<c1, c2>>))
                            ELSE @]
    /\ UNCHANGED <<cell, last, calls, pc, sent_move, inbox, outbox, client>>

\* A loop that starts the game with the pair the other way round.
Join_swapped == JoinVariant(TRUE)

Join == JoinVariant(FALSE)

NextMatch ==
    \/ WebsocketHandler
    \/ RecvPlayer1
    \/ RecvPlayer2
    \/ \E conn \in Connections, message \in FirstMessages : ConnectPlayer(conn, message)
    \/ Join

SpecMatch == InitMatch /\ [][NextMatch]_vars

\* ------------------------------------------------- the laser and allegiance
\* One call of try_move, and next to it the laser of the same player on the
\* board try_move_piece produced with the allegiance of some pieces changed:
\* self.bounce_laser(laser) and the write of its result (logic.rs:80-83).

\* The board with the pieces on the cells `flips` given to the other player.
Recolour(board, flips) ==
    [y \in Coords |-> [x \in Coords |->
        IF usizevec2(x, y) \in flips /\ board[y][x] # None
        THEN Some(Piece(Unwrap(board[y][x]).kind, Other(Unwrap(board[y][x]).allegiance)))
        ELSE board[y][x]]]

\* let Some((hit_coord, new_piece_state)) = self.bounce_laser(laser) else
\* { return Ok(()) }; self.cell[hit_coord.y][hit_coord.x] = new_piece_state
fire_laser(self, player) ==
    LET walk == bounce_laser(self, PlayerLaser(player)) IN
    [walk  |-> walk,
     board |-> IF walk.ret = None THEN self
               ELSE SetCell(self, Unwrap(walk.ret)[1], Unwrap(walk.ret)[2])]

\* The ring boards whose corners all pass the beam on, the boards with a
\* stacked block in a laser's path, and the late-game boards.
TwinBoards ==
    {BoardOf({<<RingA, Piece(ka, "Player1")>>, <<RingB, Piece(kb, "Player1")>>,
              <<RingC, Piece(kc, "Player1")>>, <<RingD, Piece(kd, "Player1")>>}) :
        ka \in {OneSide("SW"), TwoSide("NE")}, kb \in {OneSide("NE"), TwoSide("NE")},
        kc \in {OneSide("SE"), TwoSide("NW")}, kd \in {OneSide("SW"), TwoSide("NE")}}
    \cup BlockBoards \cup LateBoards

InitTwin ==
    /\ cell \in TwinBoards
    /\ last = [op |-> "none"]
    /\ calls = 0
    /\ NoSession

\* board.try_move(&player_move, player), and for an accepted move the same
\* player's laser on the recoloured board.
TryMoveTwin(player_move, player, flips) ==
    /\ last.op = "none"
    /\ \E r \in {try_move(cell, player_move, player)} :
          /\ cell' = r.board
          /\ last' = IF r.result.tag = "Err"
                     THEN [op |-> "try_move", player |-> player, move |-> player_move,
                           before |-> cell, call |-> r, flips |-> {}]
                     ELSE [op |-> "try_move", player |-> player, move |-> player_move,
                           before |-> cell, call |-> r,
                           flips |-> flips \cap Occupied(r.moved),
                           twin |-> Recolour(r.moved, flips),
                           twin_call |-> fire_laser(Recolour(r.moved, flips), player)]
    /\ calls' = calls + 1
    /\ UNCHANGED session

\* The cells that may hold a piece once the move is made.
TwinCells(player_move) ==
    Occupied(cell) \cup
    (IF player_move.kind.tag = "Move"
        /\ add_compass_octant(player_move.from, player_move.kind.direction) # None
     THEN {Unwrap(add_compass_octant(player_move.from, player_move.kind.direction))}
     ELSE {})

NextTwin ==
    \E from \in Occupied(cell), kind \in MoveKinds, player \in Players :
        \E flips \in SUBSET TwinCells(Move(from, kind)) :
            TryMoveTwin(Move(from, kind), player, flips)

SpecTwin == InitTwin /\ [][NextTwin]_vars

\* ------------------------------------------------- coordinates as text
\* parse_coordinate and format_coord of src/src/bin/client-cli.rs.  A &str is
\* a sequence of characters, a character a string of length one.

\* b'A'
ByteA == 65

\* The characters with the byte values from b'A' on, as far as format_coord
\* can reach from a cell of the grid.
UpperLetters == <<"A", "B", "C", "D", "E", "F", "G", "H">>

LowerLetters == <<"a", "b", "c", "d", "e", "f", "g", "h">>

Digits == <<"0", "1", "2", "3", "4", "5", "6", "7", "8", "9">>

\* char::to_ascii_uppercase
to_ascii_uppercase(c) ==
    IF \E i \in 1 .. Len(LowerLetters) : LowerLetters[i] = c
    THEN UpperLetters[CHOOSE i \in 1 .. Len(LowerLetters) : LowerLetters[i] = c]
    ELSE c

\* char::from(byte), for the bytes of the letters above.
char_from(byte) == UpperLetters[byte - ByteA + 1]

\* The decimal text of a number below ten, as format!("{}") prints it.
decimal(n) == Digits[n + 1]

\* Option<USizeVec2>
parse_coordinate(coord) ==
    IF Len(coord) # 2 THEN None
    ELSE
    LET col_char == to_ascii_uppercase(coord[1])
        row_char == coord[2]
    IN  IF ~(\E i \in 1 .. 8 : UpperLetters[i] = col_char) THEN None
        ELSE IF ~(\E i \in 2 .. 9 : Digits[i] = row_char) THEN None
        ELSE Some(usizevec2((CHOOSE i \in 1 .. 8 : UpperLetters[i] = col_char) - 1,
                            (CHOOSE i \in 2 .. 9 : Digits[i] = row_char) - 2))

\* String
format_coord(coord) ==
    LET col == char_from(ByteA + coord.x)
        row == 8 - coord.y
    IN  <<col, decimal(row)>>

\* display_board: the label printed in front of row y of the board.
row_label(y) == decimal(y + 1)

\* The text a player may type for a coordinate: a letter and a digit, and
\* some text that is no coordinate.
CoordTexts ==
    {<<c, d>> : c \in {UpperLetters[i] : i \in 1 .. 8}
                      \cup {LowerLetters[i] : i \in 1 .. 8} \cup {"I", "@"},
                d \in {Digits[i] : i \in 1 .. 10}}
    \cup {<<>>, <<"A">>, <<"A", "1", "0">>}

InitCoord ==
    /\ cell = EmptyBoard
    /\ calls = 0
    /\ last \in {[op |-> "coord_input", text |-> t] : t \in CoordTexts}
    /\ NoSession

\* parse_coordinate(text)
ParseCoordinate ==
    /\ last.op = "coord_input"
    /\ last' = [op |-> "parsed", text |-> last.text,
                coord |-> parse_coordinate(last.text)]
    /\ UNCHANGED <<cell, calls>>
    /\ UNCHANGED session

\* format_coord(coord) of the cell parsed.
FormatCoord ==
    /\ last.op = "parsed"
    /\ last.coord # None
    /\ last' = [op |-> "formatted", text |-> last.text, coord |-> last.coord,
                shown |-> format_coord(Unwrap(last.coord))]
    /\ UNCHANGED <<cell, calls>>
    /\ UNCHANGED session

NextCoord == ParseCoordinate \/ FormatCoord

SpecCoord == InitCoord /\ [][NextCoord]_vars

\* ------------------------------------------------- vocabulary of the claims

Called == last.op = "try_move"

Rejected == Called /\ last.call.result.tag = "Err"

Accepted == Called /\ last.call.result.tag = "Ok"

RejectedWith(e) == Rejected /\ last.call.result.err = e

\* One step in an octant, in plain integer arithmetic: North is +y, East +x.
OctantDX(d) ==
    IF d \in {"NorthEast", "East", "SouthEast"} THEN 1
    ELSE IF d \in {"NorthWest", "West", "SouthWest"} THEN -1 ELSE 0

OctantDY(d) ==
    IF d \in {"NorthEast", "North", "NorthWest"} THEN 1
    ELSE IF d \in {"SouthEast", "South", "SouthWest"} THEN -1 ELSE 0

StepX(from, d) == from.x + OctantDX(d)

StepY(from, d) == from.y + OctantDY(d)

InGrid(x, y) == x \in Coords /\ y \in Coords

\* The cells in which two boards differ.
Diff(b1, b2) == {pos \in Positions : At(b1, pos) # At(b2, pos)}

\* The piece the caller names, on the board before the call.
FromPiece == At(last.before, last.move.from)

OwnPiece == FromPiece # None /\ Unwrap(FromPiece).allegiance = last.player

IsMove == last.move.kind.tag = "Move"

IsRotate == last.move.kind.tag = "Rotate"

\* The laser of the last accepted call: where it ended and how.
Walk == last.call.walk

LaserHit == Walk.returns /\ Walk.ret # None

HitCoord == Unwrap(Walk.ret)[1]

\* The piece the laser ended on, as it stood when the laser was fired.
HitPiece == Unwrap(At(last.call.moved, HitCoord))

\* The heading of the laser when it struck its last piece.
HitHeading == Walk.entered[Len(Walk.entered)].direction

\* The board holds the player's king.
HasKing(board, player) ==
    \E pos \in Positions : At(board, pos) = Some(Piece(King, player))

\* One step in a quadrant, in plain integer arithmetic.
QuadrantDX(d) == IF d = "East" THEN 1 ELSE IF d = "West" THEN -1 ELSE 0

QuadrantDY(d) == IF d = "North" THEN 1 ELSE IF d = "South" THEN -1 ELSE 0

\* The cell k steps along the ray of a laser.
RayCell(laser, k) ==
    [x |-> laser.position.x + k * QuadrantDX(laser.direction),
     y |-> laser.position.y + k * QuadrantDY(laser.direction)]

\* The distances, from 0 on, at which the ray of a laser meets a piece
\* before the edge of the grid.
RayHits(board, laser) ==
    {k \in 0 .. (N - 1) :
        /\ InGrid(RayCell(laser, k).x, RayCell(laser, k).y)
        /\ At(board, RayCell(laser, k)) # None}

\* The nearest of them with its piece, or None.
FirstOnRay(board, laser) ==
    IF RayHits(board, laser) = {} THEN None
    ELSE LET k == CHOOSE n \in RayHits(board, laser) :
                      \A m \in RayHits(board, laser) : n <= m
         IN  Some(<<RayCell(laser, k), Unwrap(At(board, RayCell(laser, k)))>>)

\* ------------------------------------------------------------------ claims

\* C1: when try_move rejects a move (any InvalidMove), the board is cell for
\* cell the board before the call, and no laser was fired.
C1_RejectionLeavesBoard ==
    Rejected =>
        /\ last.call.result.err \in InvalidMoves
        /\ cell = last.before
        /\ ~last.call.fired

\* A rejected step onto an occupied cell while a piece stands in the mover's
\* laser column: a partial write or a laser would have shown.
C1_Witness ==
    /\ RejectedWith("DestinationOccupied")
    /\ bounce_laser(last.before, PlayerLaser(last.player)).ret # None

ReflectionTable ==
    {<<"OneSide", "NE", "South", "East">>, <<"OneSide", "NE", "West", "North">>,
     <<"OneSide", "NW", "South", "West">>, <<"OneSide", "NW", "East", "North">>,
     <<"OneSide", "SE", "North", "East">>, <<"OneSide", "SE", "West", "South">>,
     <<"OneSide", "SW", "North", "West">>, <<"OneSide", "SW", "East", "South">>}
    \cup UNION {{<<"TwoSide", o, "South", "East">>, <<"TwoSide", o, "West", "North">>,
                 <<"TwoSide", o, "North", "West">>, <<"TwoSide", o, "East", "South">>} :
                    o \in {"NE", "SW"}}
    \cup UNION {{<<"TwoSide", o, "South", "West">>, <<"TwoSide", o, "East", "North">>,
                 <<"TwoSide", o, "North", "East">>, <<"TwoSide", o, "West", "South">>} :
                    o \in {"NW", "SE"}}

\* C3: reflect returns a new heading exactly for the (piece, heading) pairs
\* of the table, and then the heading the table lists; a King or a Block,
\* stacked or not, reflects for no heading.
C3_ReflectMatchesTable ==
    last.op = "reflect" =>
        LET k == last.piece.kind
            rows == {r \in ReflectionTable :
                        /\ k.tag \in {"OneSide", "TwoSide"}
                        /\ r[1] = k.tag
                        /\ r[2] = k.orientation
                        /\ r[3] = last.direction}
        IN  /\ last.out.tag = "Ok" <=> rows # {}
            /\ last.out.tag = "Ok" =>
                  rows = {<<k.tag, k.orientation, last.direction, last.out.val>>}
            /\ k.tag \in {"King", "Block"} => last.out.tag = "Err"

\* A TwoSide(SW) struck heading East turns the laser South.
C3_Witness ==
    /\ last.op = "reflect"
    /\ last.piece.kind = TwoSide("SW")
    /\ last.direction = "East"
    /\ last.out = Ok("South")

\* Whether a piece of this kind turns a laser with this heading, by the table.
TableReflects(kind, heading) ==
    /\ kind.tag \in {"OneSide", "TwoSide"}
    /\ \E r \in ReflectionTable :
          r[1] = kind.tag /\ r[2] = kind.orientation /\ r[3] = heading

\* C4: the laser walk of every accepted try_move starts on the mover's fixed
\* origin ((7,0) heading North for Player1, (0,7) heading South for Player2)
\* and ends: the recursion of bounce_laser never re-enters a laser state,
\* and it returns either None (the laser left the grid) or a cell whose
\* piece does not reflect the heading it was struck with.
C4_LaserWalkEnds ==
    Accepted =>
        /\ Walk.entered[1] =
              (IF last.player = "Player1"
               THEN [position |-> [x |-> 7, y |-> 0], direction |-> "North"]
               ELSE [position |-> [x |-> 0, y |-> 7], direction |-> "South"])
        /\ Walk.returns
        /\ Walk.ret # None => ~TableReflects(HitPiece.kind, HitHeading)

\* A laser started between the ring's corners B and A, heading East, never
\* returns on this board.
OnClosedLoop(board) == ~bounce_laser(board, Laser(usizevec2(5, 2), "East")).returns

\* The move closed a loop of mirrors (none was there before), and the
\* mover's laser was turned by one of the loop's mirrors.
C4_Witness ==
    /\ Accepted
    /\ ~OnClosedLoop(last.before)
    /\ OnClosedLoop(last.call.moved)
    /\ Len(Walk.reflected) >= 1

\* The cells whose piece turned the laser of the last accepted call.
ReflectedCells == {Walk.reflected[i] : i \in 1 .. Len(Walk.reflected)}

StepInGrid == InGrid(StepX(last.move.from, last.move.kind.direction),
                     StepY(last.move.from, last.move.kind.direction))

StepCell == usizevec2(StepX(last.move.from, last.move.kind.direction),
                      StepY(last.move.from, last.move.kind.direction))

\* C6: the first violated condition decides the rejection: an empty from
\* cell gives NoPieceAtFrom; otherwise the other player's piece gives
\* NotYourPiece whatever else is wrong with the move; only for the mover's
\* own piece OutOfBounds, then DestinationOccupied (Move) or CannotRotate
\* (Rotate) are reported, and a move with none of these is accepted.
C6_FirstFailureWins ==
    Called =>
        LET res == last.call.result IN
        /\ FromPiece = None => res = Err("NoPieceAtFrom")
        /\ (FromPiece # None /\ ~OwnPiece) => res = Err("NotYourPiece")
        /\ (OwnPiece /\ IsMove) =>
              IF ~StepInGrid THEN res = Err("OutOfBounds")
              ELSE IF At(last.before, StepCell) # None
                   THEN res = Err("DestinationOccupied")
                   ELSE res = Ok(<<>>)
        /\ (OwnPiece /\ IsRotate) =>
              IF Unwrap(FromPiece).kind.tag \in {"King", "Block"}
              THEN res = Err("CannotRotate")
              ELSE res = Ok(<<>>)
        /\ res.tag = "Err" => res.err \in InvalidMoves

\* The other player's piece, on the edge, told to step off the grid.
C6_Witness ==
    /\ RejectedWith("NotYourPiece")
    /\ IsMove
    /\ ~StepInGrid

\* C7: a Move of the mover's own piece whose one-step destination is off the
\* grid (on either axis) yields OutOfBounds, and no Move whose destination
\* is on the grid yields OutOfBounds.
C7_OutOfBounds ==
    (Called /\ IsMove) =>
        /\ (OwnPiece /\ ~StepInGrid) => last.call.result = Err("OutOfBounds")
        /\ StepInGrid => last.call.result # Err("OutOfBounds")

\* A diagonal step from the west edge that leaves the grid on the x axis only.
C7_Witness ==
    /\ RejectedWith("OutOfBounds")
    /\ last.move.kind.direction = "SouthWest"
    /\ last.move.from.x = 0
    /\ last.move.from.y > 0

\* C8: a Move of the mover's own piece onto an occupied cell of the grid,
\* whoever owns the piece there and whatever its kind, yields
\* DestinationOccupied and leaves the board unchanged; an accepted Move
\* went to an empty cell and try_move_piece changed no cell that held
\* another piece.
C8_OccupiedDestination ==
    (Called /\ IsMove) =>
        /\ (OwnPiece /\ StepInGrid /\ At(last.before, StepCell) # None) =>
              /\ last.call.result = Err("DestinationOccupied")
              /\ cell = last.before
        /\ Accepted =>
              /\ At(last.before, StepCell) = None
              /\ \A pos \in Positions \ {last.move.from} :
                    At(last.before, pos) # None =>
                        At(last.call.moved, pos) = At(last.before, pos)

\* A step onto a mirror of the other player.
C8_Witness ==
    /\ RejectedWith("DestinationOccupied")
    /\ Unwrap(At(last.before, StepCell)).allegiance # last.player
    /\ Unwrap(At(last.before, StepCell)).kind.tag = "TwoSide"

\* C9: after an accepted Move, on the board try_move_piece produced, the
\* cell one step from the from cell holds the piece that was at from
\* (kind, orientation or stack flag, allegiance), the from cell is empty
\* and the other 62 cells are as before.
C9_MoveRelocates ==
    (Accepted /\ IsMove) =>
        /\ StepInGrid
        /\ At(last.call.moved, StepCell) = FromPiece
        /\ At(last.call.moved, last.move.from) = None
        /\ \A pos \in Positions \ {last.move.from, StepCell} :
              At(last.call.moved, pos) = At(last.before, pos)

\* A stacked block stepped diagonally.
C9_Witness ==
    /\ Accepted
    /\ IsMove
    /\ last.move.kind.direction = "SouthEast"
    /\ Unwrap(FromPiece).kind = Block(TRUE)

\* A quarter turn: Clockwise NE -> SE -> SW -> NW -> NE, CounterClockwise
\* the reverse.
QuarterTurn(o, chirality) ==
    LET cw == [NE |-> "SE", SE |-> "SW", SW |-> "NW", NW |-> "NE"]
    IN  IF chirality = "Clockwise" THEN cw[o]
        ELSE CHOOSE q \in Orientations : cw[q] = o

\* C10: Rotate on the mover's King or Block yields CannotRotate; on the
\* mover's OneSide or TwoSide it is accepted, and on the board
\* try_move_piece produced the from cell holds a piece of the same variant
\* and allegiance turned a quarter turn, every other cell as before.
C10_Rotation ==
    (Called /\ OwnPiece /\ IsRotate) =>
        LET piece == Unwrap(FromPiece) IN
        IF piece.kind.tag \in {"King", "Block"}
        THEN last.call.result = Err("CannotRotate")
        ELSE /\ Accepted
             /\ At(last.call.moved, last.move.from) =
                    Some(Piece([tag |-> piece.kind.tag,
                                orientation |->
                                    QuarterTurn(piece.kind.orientation,
                                                last.move.kind.chirality)],
                               piece.allegiance))
             /\ \A pos \in Positions \ {last.move.from} :
                    At(last.call.moved, pos) = At(last.before, pos)

\* A TwoSide(NE) turned CounterClockwise.
C10_Witness ==
    /\ Accepted
    /\ IsRotate
    /\ last.move.kind.chirality = "CounterClockwise"
    /\ Unwrap(FromPiece).kind = TwoSide("NE")
    /\ Unwrap(At(last.call.moved, last.move.from)).kind = TwoSide("NW")

\* C11: a mirror rotated k times with one chirality through try_move_piece
\* (every rotation accepted) is the piece it started as exactly when k is a
\* multiple of four: four rotations restore the board, one, two or three do
\* not.
C11_RotationClosure ==
    last.op = "rotate" =>
        /\ last.result.tag = "Ok"
        /\ (cell = last.start) <=> (calls % 4 = 0)
        /\ Diff(cell, last.start) \subseteq {last.from}

\* A TwoSide turned CounterClockwise four times, back where it started.
C11_Witness ==
    /\ last.op = "rotate"
    /\ calls = 4
    /\ last.chirality = "CounterClockwise"
    /\ Unwrap(At(last.start, last.from)).kind.tag = "TwoSide"
    /\ cell = last.start

\* C12: a laser that ends on a stacked Block leaves a Block with stacked =
\* FALSE of the same allegiance on that cell; a laser that ends on an
\* unstacked Block (one an earlier laser downgraded, or any other) leaves the
\* cell empty.  Either way the hit cell is the only cell the laser changes,
\* and a block a laser has downgraded is unstacked when it is struck again.
C12_StackedBlockDowngrade ==
    (Accepted /\ LaserHit /\ HitPiece.kind.tag = "Block") =>
        /\ At(cell, HitCoord) =
              (IF HitPiece.kind.stacked
               THEN Some(Piece(Block(FALSE), HitPiece.allegiance))
               ELSE None)
        /\ Diff(last.call.moved, cell) = {HitCoord}
        /\ HitCoord \in last.before_marks => ~HitPiece.kind.stacked

\* The second hit: the block an earlier laser of this behaviour downgraded is
\* struck again and removed, the piece behind it on the beam's line stays.
C12_Witness ==
    /\ Accepted
    /\ LaserHit
    /\ HitPiece.kind = Block(FALSE)
    /\ HitCoord = [x |-> 7, y |-> 3]
    /\ HitCoord \in last.before_marks
    /\ At(cell, HitCoord) = None
    /\ At(cell, [x |-> 7, y |-> 5]) # None

\* C13: game_over is FALSE exactly on the boards that hold both players'
\* kings, and TRUE on every board from which Player1's king, Player2's king
\* or both are gone, whatever other pieces the board holds.
C13_GameOverIffKingMissing ==
    last.op = "game_over" =>
        (last.out <=> ~(HasKing(cell, "Player1") /\ HasKing(cell, "Player2")))

\* Player1's king gone, Player2's king and one more piece still there:
\* game over.
C13_Witness ==
    /\ last.op = "game_over"
    /\ last.out
    /\ ~HasKing(cell, "Player1")
    /\ HasKing(cell, "Player2")
    /\ At(cell, [x |-> 5, y |-> 5]) # None

\* C14: on every straight stretch of the laser of an accepted try_move,
\* cast_laser returns the nearest occupied cell of the ray, the stretch's
\* first cell included, or None when the ray is empty up to the edge; a
\* laser whose first ray is empty leaves the board as try_move_piece made
\* it, a laser that hits changes no cell but the hit one; and on the board
\* with only Player1's king on (3,7) and Player2's king on (4,0) Player1's
\* laser changes nothing and the game is not over.
C14_CastStopsAtFirstPiece ==
    Accepted =>
        /\ \A i \in 1 .. Len(Walk.entered) :
              cast_laser(last.call.moved, Walk.entered[i]) =
                  FirstOnRay(last.call.moved, Walk.entered[i])
        /\ FirstOnRay(last.call.moved, Walk.entered[1]) = None =>
              /\ Walk.ret = None
              /\ cell = last.call.moved
        /\ LaserHit =>
              /\ HitCoord =
                    Unwrap(FirstOnRay(last.call.moved,
                                      Walk.entered[Len(Walk.entered)]))[1]
              /\ Diff(last.call.moved, cell) \subseteq {HitCoord}
        /\ ( /\ Occupied(last.before) = {[x |-> 3, y |-> 7], [x |-> 4, y |-> 0]}
             /\ At(last.before, [x |-> 3, y |-> 7]) = Some(Piece(King, "Player1"))
             /\ At(last.before, [x |-> 4, y |-> 0]) = Some(Piece(King, "Player2"))
             /\ last.player = "Player1" ) =>
              /\ cell = last.call.moved
              /\ ~game_over(cell)

\* Player1's piece stepped onto the firing corner (7,0) and was hit there by
\* the laser's first cast, at distance 0.
C14_Witness ==
    /\ Accepted
    /\ last.player = "Player1"
    /\ IsMove
    /\ LaserHit
    /\ Len(Walk.entered) = 1
    /\ HitCoord = [x |-> 7, y |-> 0]
    /\ StepCell = HitCoord

\* Player1 moved the king on the kings-only board: the laser left the grid.
C14_WitnessKingsOnly ==
    /\ Accepted
    /\ last.player = "Player1"
    /\ Occupied(last.before) = {[x |-> 3, y |-> 7], [x |-> 4, y |-> 0]}
    /\ Walk.ret = None

\* The heading the table gives a laser that strikes a mirror of this kind
\* with this heading (for the pairs with TableReflects).
TableHeading(kind, heading) ==
    (CHOOSE r \in ReflectionTable :
        r[1] = kind.tag /\ r[2] = kind.orientation /\ r[3] = heading)[4]

\* C15: in the laser walk of an accepted try_move, the stretch after the
\* i-th reflection starts on the cell next to the mirror in the new heading
\* (never on the mirror's own cell), with the heading the mirror gave; when
\* that cell is off the grid the walk ends there, the laser returns None and
\* the board stays as try_move_piece made it.
C15_ResumesNextToMirror ==
    Accepted =>
        LET board == last.call.moved
            turned(i) == TableHeading(Unwrap(At(board, Walk.reflected[i])).kind,
                                      Walk.entered[i].direction)
            beyond(i) == RayCell(Laser(Walk.reflected[i], turned(i)), 1)
        IN  /\ Len(Walk.reflected) \in {Len(Walk.entered) - 1, Len(Walk.entered)}
            /\ \A i \in 1 .. Len(Walk.reflected) :
                  /\ TableReflects(Unwrap(At(board, Walk.reflected[i])).kind,
                                   Walk.entered[i].direction)
                  /\ IF i < Len(Walk.entered)
                     THEN /\ InGrid(beyond(i).x, beyond(i).y)
                          /\ Walk.entered[i + 1] = Laser(beyond(i), turned(i))
                          /\ Walk.entered[i + 1].position # Walk.reflected[i]
                     ELSE /\ ~InGrid(beyond(i).x, beyond(i).y)
                          /\ Walk.ret = None
                          /\ cell = board

\* A beam turned by three mirrors in a row, resumed each time next to the
\* mirror, and ended on a fourth piece.
C15_Witness ==
    /\ Accepted
    /\ Len(Walk.reflected) = 3
    /\ Len(Walk.entered) = 4
    /\ LaserHit
    /\ \A i \in 1 .. 3 : Walk.entered[i + 1].position # Walk.reflected[i]

\* A mirror on the east edge turning Player1's beam East, off the grid.
C15_WitnessOffGrid ==
    /\ Accepted
    /\ Walk.reflected = <<[x |-> 7, y |-> 2]>>
    /\ Len(Walk.entered) = 1
    /\ Walk.ret = None
    /\ cell = last.call.moved

\* The fixed laser of each player, as the claim states it.
FixedOrigin(player) ==
    IF player = "Player1"
    THEN [position |-> [x |-> 7, y |-> 0], direction |-> "North"]
    ELSE [position |-> [x |-> 0, y |-> 7], direction |-> "South"]

\* The first cell the laser of the last accepted call struck: a mirror that
\* turned it, or the cell it ended on; None when it struck nothing.
FirstStruck ==
    IF Len(Walk.reflected) >= 1 THEN Some(Walk.reflected[1])
    ELSE IF Walk.ret # None THEN Some(HitCoord)
    ELSE None

\* C16: an accepted try_move first changes exactly one piece, a piece of the
\* mover (the from cell and, for a Move, the cell one step on; nothing else),
\* then fires the laser from the mover's fixed origin, whatever the board
\* holds, on the board with the piece already moved: the first cell the
\* laser strikes is the nearest piece of that board on the origin's ray, so
\* a piece stepped into the ray is struck in the same call and the cell a
\* piece stepped out of is not.
C16_MoveThenLaser ==
    Accepted =>
        LET board == last.call.moved
            first == FirstOnRay(board, FixedOrigin(last.player))
        IN  /\ OwnPiece
            /\ Diff(last.before, board) =
                  (IF IsMove THEN {last.move.from, StepCell} ELSE {last.move.from})
            /\ Cardinality(Occupied(board)) = Cardinality(Occupied(last.before))
            /\ last.call.fired
            /\ Walk.entered[1] = FixedOrigin(last.player)
            /\ FirstStruck = (IF first = None THEN None ELSE Some(Unwrap(first)[1]))
            /\ (IsMove /\ first # None /\ Unwrap(first)[1] = StepCell) =>
                  /\ FirstStruck = Some(StepCell)
                  /\ (~TableReflects(Unwrap(FromPiece).kind, "North")
                      /\ last.player = "Player1") =>
                        At(cell, StepCell) # FromPiece
            /\ IsMove => FirstStruck # Some(last.move.from)
            /\ Diff(board, cell) \subseteq
                  (IF LaserHit THEN {HitCoord} ELSE {})

\* Player1's king stepped from column 6 into column 7, the column of
\* Player1's laser, and was removed by the laser of the same call.
C16_Witness ==
    /\ Accepted
    /\ IsMove
    /\ last.player = "Player1"
    /\ last.move.from.x = 6
    /\ StepCell.x = 7
    /\ Unwrap(FromPiece).kind = King
    /\ LaserHit
    /\ HitCoord = StepCell
    /\ At(cell, StepCell) = None

\* Player1's king stepped out of column 7 and was not struck.
C16_WitnessMovedOut ==
    /\ Accepted
    /\ IsMove
    /\ last.player = "Player1"
    /\ last.move.from.x = 7
    /\ StepCell.x = 6
    /\ Unwrap(FromPiece).kind = King
    /\ Occupied(last.before) = {last.move.from}
    /\ cell = last.call.moved
    /\ At(cell, StepCell) = FromPiece

\* C17 as stated: at the start of a session the board holds two pieces,
\* Player2's king on column 4 of the row of Player2's laser origin and
\* Player1's king on column 3 of the opposite row, the row of Player1's
\* laser origin.
C17_KingsOnOwnLaserRow ==
    last.op = "start" =>
        /\ Cardinality(Occupied(cell)) = 2
        /\ At(cell, [x |-> 4, y |-> PlayerLaser("Player2").position.y]) =
              Some(Piece(King, "Player2"))
        /\ At(cell, [x |-> 3, y |-> PlayerLaser("Player1").position.y]) =
              Some(Piece(King, "Player1"))

\* C17, amended: at the start of a session, and until the first request is
\* read, the board holds exactly two pieces: Player2's king on (4,0), column
\* 4 of row 0, which is the row of Player1's laser origin (7,0) and the row
\* farthest from Player2's origin (0,7); and Player1's king on (3,7), column
\* 3 of row 7, the row of Player2's laser origin.
C17_StartingLayout ==
    last.op = "start" =>
        /\ Occupied(cell) = {[x |-> 4, y |-> 0], [x |-> 3, y |-> 7]}
        /\ At(cell, [x |-> 4, y |-> 0]) = Some(Piece(King, "Player2"))
        /\ At(cell, [x |-> 3, y |-> 7]) = Some(Piece(King, "Player1"))
        /\ PlayerLaser("Player1").position.y = 0
        /\ PlayerLaser("Player2").position.y = 7

\* The session waits for Player1's first move; both players have been sent
\* the starting board and have not read it yet.
C17_Witness ==
    /\ last.op = "start"
    /\ pc = "await_player1"
    /\ \A p \in Players :
          /\ Len(outbox[p]) = 1
          /\ outbox[p][1].type = "InitialSetup"
          /\ outbox[p][1].board = cell
    /\ At(cell, [x |-> 4, y |-> 0]) = Some(Piece(King, "Player2"))

\* C18: the moves start_game applies alternate, Player1's first (the k-th
\* applied move is Player1's for odd k, Player2's for even k, and the move
\* applied before it was the other player's); one move at most is between
\* try_move and its notification, and no request is read meanwhile; and
\* after a rejected move or a request that is no Move the board is the board
\* before it and the server awaits the same player, who is still on turn.
C18_StrictAlternation ==
    /\ last.op = "applied" =>
          /\ last.request.type = "Move"
          /\ last.player = (IF calls % 2 = 1 THEN "Player1" ELSE "Player2")
          /\ last.prev_mover = (IF calls = 1 THEN "none" ELSE Other(last.player))
    /\ last.op \in {"rejected", "recv_other"} =>
          /\ cell = last.before
          /\ pc = AwaitPc(last.player)
          /\ last.player = (IF calls % 2 = 0 THEN "Player1" ELSE "Player2")
    /\ sent_move # None <=> pc \in {"notify_player1", "notify_player2"}
    /\ pc = "await_player1" => calls % 2 = 0
    /\ pc = "await_player2" => calls % 2 = 1
    /\ pc = "notify_player2" => (calls % 2 = 1 /\ last.op = "applied")
    /\ pc = "notify_player1" => (calls % 2 = 0 /\ last.op = "applied")

\* After Player1's and Player2's first moves, a move of Player1 is
\* rejected: the board is unchanged and the server awaits Player1 again.
C18_Witness ==
    /\ last.op = "rejected"
    /\ calls = 2
    /\ last.mover = "Player2"
    /\ last.player = "Player1"
    /\ pc = "await_player1"
    /\ cell = last.before

\* C19 as stated: a Move applied to the board was sent while its sender was
\* on turn; a Move sent while the other player was on turn is never applied.
C19_OutOfTurnNeverApplied ==
    last.op = "applied" => last.request.turn = last.player

\* C20 as stated: the step in which the server reads a player's Move and
\* try_move rejects it sends that player a message.
C20_RejectionSurfaced ==
    [][\A p \in Players :
          ( /\ pc = AwaitPc(p)
            /\ inbox[p] # <<>>
            /\ inbox'[p] = Tail(inbox[p])
            /\ last'.op = "rejected" ) =>
              Len(outbox'[p]) > Len(outbox[p])]_vars

\* The positions of a client's main in which it prompts for, or waits to be
\* sent, a move.
CliInLoop(p) == client[p].pc \in {"first_turn", "player_turn", "opponent_turn"}

\* The message relaying the last applied move.
LastRelay == OpponentMoved(last.request.move)

\* C21: in a session of start_game with two command-line clients, once the
\* session's board is game over the server awaits no request of either
\* player, no move is applied to a board that is game over, and no request
\* is left unread or sent; when start_game is done the board is game over
\* and the move that ended the game has been sent as OpponentMoved to the
\* player who did not make it, who has it unread or has applied it and
\* left its loop; and a client whose board is game over has left its loop
\* (where it neither prompts nor sends).
C21_GameOverEndsSession ==
    /\ game_over(cell) =>
          /\ pc \in {"notify_player1", "notify_player2", "while", "done"}
          /\ \A p \in Players : inbox[p] = <<>>
    /\ last.op = "applied" => ~game_over(last.before)
    /\ pc = "done" =>
          /\ game_over(cell)
          /\ last.op = "applied"
          /\ LET q == Other(last.mover) IN
                \/ outbox[q] = <<LastRelay>> /\ client[q].pc = "opponent_turn"
                \/ outbox[q] = <<>> /\ client[q].pc = "game_over"
                                    /\ client[q].board = cell
    /\ \A p \in Players :
          (client[p].board # None /\ game_over(client[p].board))
              => client[p].pc = "game_over"
    /\ \A p \in Players :
          client[p].pc = "game_over" => game_over(client[p].board)

\* Player1's move has ended the game: start_game has relayed it and is done,
\* and both clients have left their loops.
C21_Witness ==
    /\ pc = "done"
    /\ last.mover = "Player1"
    /\ \A p \in Players : client[p].pc = "game_over" /\ outbox[p] = <<>>

\* Player2's move has ended the game, likewise.
C21_WitnessPlayer2 ==
    /\ pc = "done"
    /\ last.mover = "Player2"
    /\ \A p \in Players : client[p].pc = "game_over" /\ outbox[p] = <<>>

\* C24: in a session of start_game with two command-line clients every
\* request the server reads is a Move it accepts, and no client fails on a
\* message from the server; a client's board is at most one move ahead of or
\* behind the server's, and whenever it has had as many moves applied as the
\* server's board it is that board; so once an accepted move has been
\* relayed and applied the three boards are identical, and when start_game
\* is done and its messages are read both clients have left their loops at
\* game over after the same number of moves.
C24_BoardsAgree ==
    /\ last.op \in {"start", "applied"}
    /\ \A p \in Players :
          /\ client[p].pc \in {"await_setup", "first_turn", "player_turn",
                               "opponent_turn", "game_over"}
          /\ client[p].moves - calls \in {-1, 0, 1}
          /\ (client[p].pc # "await_setup" /\ client[p].moves = calls)
                => client[p].board = cell
    /\ (pc = "done" /\ \A p \in Players : outbox[p] = <<>>) =>
          \A p \in Players :
              /\ client[p].pc = "game_over"
              /\ client[p].moves = calls
              /\ game_over(client[p].board) /\ game_over(cell)

\* A laser has removed a king, and the move that did it has been applied by
\* the server and by both clients: the three boards hold the same one king.
C24_Witness ==
    /\ pc = "done"
    /\ Cardinality(Occupied(cell)) = 1
    /\ \A p \in Players : client[p].moves = calls /\ client[p].board = cell

\* The cell a laser would have come from is off the grid: the laser starts
\* at a wall, heading away from it.
StartsAtWall(laser) ==
    ~InGrid(laser.position.x - QuadrantDX(laser.direction),
            laser.position.y - QuadrantDY(laser.direction))

\* C22: bounce_laser returns for every board and every laser of the grid,
\* with any of the four headings: None (the beam left the grid) or
\* Some((hit, replacement)) with `hit` a cell holding a piece that does not
\* reflect the beam's heading.
C22_BounceAlwaysReturns ==
    last.op = "bounce" =>
        /\ last.out.returns
        /\ last.out.ret # None =>
              LET hit == Unwrap(last.out.ret)[1] IN
              /\ At(cell, hit) # None
              /\ \E d \in Quadrants :
                    /\ Piece_reflect(Unwrap(At(cell, hit)), d).tag = "Err"
                    /\ Piece_reflect(Unwrap(At(cell, hit)), d).err
                          = Unwrap(last.out.ret)[2]

\* What does hold: bounce_laser returns for every laser that starts at a
\* wall heading away from it (the two firing corners among them).
C22_ReturnsFromTheWall ==
    (last.op = "bounce" /\ StartsAtWall(last.laser)) => last.out.returns

\* A call of bounce_laser that did not return.
C22_NeverReturns == last.op = "bounce" /\ ~last.out.returns

\* The connections of a started game.
GamePlayers(g) == {g.player_order0, g.player_order1}

\* C23: every game matchmaking has started is for two connections that
\* arrived one right after the other, the (2k-1)-th and the 2k-th, both of
\* which delivered an InitialSetup as their first message; the earlier
\* arrival is sent player_order 0 and the later player_order 1; and no
\* connection is in two games.  The pair being set up is likewise the next
\* two arrivals in order.
C23_PairsInArrivalOrder ==
    lobby.pc # "off" =>
        /\ \A i \in 1 .. Len(lobby.games) :
              LET g == lobby.games[i] IN
              /\ g.player_order0 % 2 = 1
              /\ g.player_order1 = g.player_order0 + 1
              /\ lobby.first[g.player_order0] = "InitialSetup"
              /\ lobby.first[g.player_order1] = "InitialSetup"
        /\ \A i, j \in 1 .. Len(lobby.games) :
              i # j => GamePlayers(lobby.games[i]) \cap GamePlayers(lobby.games[j]) = {}
        /\ lobby.player1 # None => Unwrap(lobby.player1) % 2 = 1
        /\ lobby.player2 # None =>
              /\ lobby.player1 # None
              /\ Unwrap(lobby.player2) = Unwrap(lobby.player1) + 1

\* The first pair was dropped although its first connection delivered an
\* InitialSetup (the second did not); the next pair plays, the third arrival
\* as Player1 and the fourth as Player2.
C23_Witness ==
    /\ lobby.pc # "off"
    /\ lobby.first[1] = "InitialSetup"
    /\ lobby.first[2] = "Move"
    /\ lobby.games = <<[player_order0 |-> 3, player_order1 |-> 4]>>

\* The kings of a player on a board.
KingCount(board, player) ==
    Cardinality({pos \in Positions : At(board, pos) = Some(Piece(King, player))})

\* `now` is the piece `was` or what a laser or a rotation may make of it:
\* the same allegiance and variant, a block not stacked unless it was.
SamePiece(was, now) ==
    /\ now.allegiance = was.allegiance
    /\ now.kind.tag = was.kind.tag
    /\ now.kind.tag = "Block" => (now.kind.stacked => was.kind.stacked)

\* The cell of the board before the last call whose piece stands on `pos`
\* after it.
CameFrom(pos) ==
    IF Accepted /\ IsMove /\ pos = StepCell THEN last.move.from ELSE pos

\* C25: over calls of try_move one after another, accepted or rejected, by
\* either player: every piece on the board after a call is a piece that was
\* on the board before it (at the same cell, or at the from cell for the
\* piece moved, which has left that cell), with the same allegiance and the
\* same variant, a Block stacked only if it was stacked; so the pieces do
\* not grow in number and no player gains a king.  From boards with at most
\* one king per player, the server's starting board among them, each player
\* has at most one king and game_over is TRUE exactly when some player has
\* no king.
C25_PieceConservation ==
    /\ last.op = "try_move" =>
          /\ \A pos \in Occupied(cell) :
                /\ At(last.before, CameFrom(pos)) # None
                /\ SamePiece(Unwrap(At(last.before, CameFrom(pos))),
                             Unwrap(At(cell, pos)))
          /\ (Accepted /\ IsMove) => At(cell, last.move.from) = None
          /\ Cardinality(Occupied(cell)) <= Cardinality(Occupied(last.before))
          /\ \A player \in Players :
                KingCount(cell, player) <= KingCount(last.before, player)
    /\ \A player \in Players : KingCount(cell, player) <= 1
    /\ game_over(cell) <=> \E player \in Players : KingCount(cell, player) = 0

\* The second of two calls: a block was downgraded by the first, and in this
\* one the laser has removed a king, so there is a piece less and the game
\* is over.
C25_Witness ==
    /\ calls = 2
    /\ Accepted
    /\ last.before_marks # {}
    /\ \E player \in Players :
          KingCount(cell, player) < KingCount(last.before, player)
    /\ Cardinality(Occupied(cell)) < Cardinality(Occupied(last.before))
    /\ game_over(cell)

\* From the starting board: a second accepted move in a row.
C25_WitnessStart ==
    /\ calls = 2
    /\ Accepted
    /\ Cardinality(Occupied(cell)) = 2
    /\ cell # StartBoard
    /\ ~game_over(cell)

\* The heading opposite to a heading.
Opposite(h) ==
    IF h = "North" THEN "South" ELSE IF h = "South" THEN "North"
    ELSE IF h = "East" THEN "West" ELSE "East"

\* Two headings a quarter turn apart.
Perpendicular(h1, h2) == (h1 \in {"North", "South"}) # (h2 \in {"North", "South"})

\* The cells between two cells of one row or column.
Dist(p1, p2) ==
    (IF p1.x > p2.x THEN p1.x - p2.x ELSE p2.x - p1.x)
    + (IF p1.y > p2.y THEN p1.y - p2.y ELSE p2.y - p1.y)

\* The steps a laser can advance before it leaves the grid.
EdgeDist(laser) ==
    IF laser.direction = "North" THEN (N - 1) - laser.position.y
    ELSE IF laser.direction = "South" THEN laser.position.y
    ELSE IF laser.direction = "East" THEN (N - 1) - laser.position.x
    ELSE laser.position.x

\* The steps of the i-th stretch of a laser walk that returned: from the
\* laser state it was entered with up to the mirror that ended it, the
\* piece the walk ended on, or the edge of the grid.
StretchDist(walk, i) ==
    IF i <= Len(walk.reflected)
    THEN Dist(walk.entered[i].position, walk.reflected[i])
    ELSE IF walk.ret # None
    THEN Dist(walk.entered[i].position, Unwrap(walk.ret)[1])
    ELSE EdgeDist(walk.entered[i])

\* The (cell, heading) pairs the i-th stretch enters.
StretchVisits(walk, i) ==
    {<<RayCell(walk.entered[i], k), walk.entered[i].direction>> :
        k \in 0 .. StretchDist(walk, i)}

\* The cells entered over the first n stretches, each counted as often as
\* it is entered.
RECURSIVE WalkSteps(_, _)
WalkSteps(walk, n) ==
    IF n = 0 THEN 0 ELSE WalkSteps(walk, n - 1) + StretchDist(walk, n) + 1

WalkVisits(walk) ==
    UNION {StretchVisits(walk, i) : i \in 1 .. Len(walk.entered)}

\* C26: every reflection of a laser walk turns the beam a quarter turn, and
\* the mirror that turned heading h to h' turns the opposite of h' to the
\* opposite of h; the walk from either fixed corner returns, enters no
\* (cell, heading) pair twice (it enters as many pairs as it takes steps)
\* and takes at most 4 * 64 steps.
C26_NoLaserStateRepeats ==
    last.op = "bounce" =>
        LET walk == last.out IN
        /\ \A i \in 1 .. Len(walk.reflected) :
              LET mirror == Unwrap(At(cell, walk.reflected[i]))
                  h == walk.entered[i].direction
                  turned == Piece_reflect(mirror, h)
              IN  /\ turned.tag = "Ok"
                  /\ Perpendicular(h, turned.val)
                  /\ Piece_reflect(mirror, Opposite(turned.val)) = Ok(Opposite(h))
        /\ (\E player \in Players : last.laser = PlayerLaser(player)) =>
              /\ walk.returns
              /\ Cardinality(WalkVisits(walk)) = WalkSteps(walk, Len(walk.entered))
              /\ WalkSteps(walk, Len(walk.entered)) <= 4 * N * N

\* Player1's laser was turned by all four mirrors of a ring, crossed the
\* cell of the first of them a second time with another heading, and ended.
C26_Witness ==
    /\ last.op = "bounce"
    /\ last.laser = PlayerLaser("Player1")
    /\ last.out.returns
    /\ Len(last.out.reflected) >= 4
    /\ \E i, j \in 1 .. Len(last.out.reflected) :
          i # j /\ last.out.reflected[i] = last.out.reflected[j]

\* The piece kinds of a board, cell by cell, whatever the allegiance.
KindsOn(board) ==
    [pos \in Positions |->
        IF At(board, pos) = None THEN None ELSE Some(Unwrap(At(board, pos)).kind)]

\* The allegiances of a board, cell by cell.
SidesOn(board) ==
    [pos \in Positions |->
        IF At(board, pos) = None THEN None ELSE Some(Unwrap(At(board, pos)).allegiance)]

\* C27: for the board an accepted move produced and any board with the same
\* kinds on the same cells and other allegiances, the mover's laser enters
\* the same laser states, is turned on the same cells, and returns the same
\* cell with a replacement of the same kind (None for both, or a piece each
\* that keeps the allegiance the struck piece has on its board); the boards
\* after the laser hold the same kinds on the same cells, each with its own
\* allegiances.
C27_LaserBlindToAllegiance ==
    (Accepted /\ "twin" \in DOMAIN last) =>
        LET walk == last.call.walk
            twin_walk == last.twin_call.walk
        IN  /\ KindsOn(last.twin) = KindsOn(last.call.moved)
            /\ twin_walk.returns = walk.returns
            /\ twin_walk.entered = walk.entered
            /\ twin_walk.reflected = walk.reflected
            /\ (twin_walk.ret = None) = (walk.ret = None)
            /\ walk.ret # None =>
                  /\ Unwrap(twin_walk.ret)[1] = Unwrap(walk.ret)[1]
                  /\ (Unwrap(twin_walk.ret)[2] = None) = (Unwrap(walk.ret)[2] = None)
            /\ KindsOn(last.twin_call.board) = KindsOn(cell)
            /\ \A pos \in Occupied(cell) :
                  /\ SidesOn(cell)[pos] = SidesOn(last.call.moved)[pos]
                  /\ SidesOn(last.twin_call.board)[pos] = SidesOn(last.twin)[pos]

\* Player1's move let Player1's laser remove Player1's own king and end the
\* game; on the board where that king is Player2's (and nothing else is
\* changed) the same laser removes it just the same.
C27_Witness ==
    /\ Accepted
    /\ last.player = "Player1"
    /\ LaserHit
    /\ At(last.call.moved, HitCoord) = Some(Piece(King, "Player1"))
    /\ At(cell, HitCoord) = None
    /\ ~game_over(last.before)
    /\ game_over(cell)
    /\ last.flips = {HitCoord}
    /\ At(last.twin, HitCoord) = Some(Piece(King, "Player2"))
    /\ At(last.twin_call.board, HitCoord) = None

\* Player1's laser downgraded Player1's own stacked block, and Player2's on
\* the other board.
C27_WitnessOwnBlock ==
    /\ Accepted
    /\ last.player = "Player1"
    /\ LaserHit
    /\ At(last.call.moved, HitCoord) = Some(Piece(Block(TRUE), "Player1"))
    /\ At(cell, HitCoord) = Some(Piece(Block(FALSE), "Player1"))
    /\ At(last.twin_call.board, HitCoord) = Some(Piece(Block(FALSE), "Player2"))

\* A coordinate text with its letter in upper case.
UpperCased(text) == <<to_ascii_uppercase(text[1]), text[2]>>

\* C28: for every column letter A..H (or a..h) and row digit 1..8,
\* format_coord(parse_coordinate(s)) is s with the letter in upper case, and
\* its digit is the label display_board prints for the row of the cell.
C28_CoordRoundTrip ==
    last.op = "formatted" =>
        /\ last.shown = UpperCased(last.text)
        /\ last.shown[2] = row_label(Unwrap(last.coord).y)

\* What the code does: the letter comes back, the digit d comes back as
\* 9 - d, which is never d; parse_coordinate agrees with the row labels of
\* display_board, format_coord with neither.
C28_RowComesBackMirrored ==
    /\ last.op \in {"parsed", "formatted"} =>
          (last.coord # None <=>
              /\ Len(last.text) = 2
              /\ \E i \in 1 .. 8 : to_ascii_uppercase(last.text[1]) = UpperLetters[i]
              /\ \E d \in 1 .. 8 : last.text[2] = decimal(d))
    /\ last.op = "formatted" =>
          /\ last.shown[1] = to_ascii_uppercase(last.text[1])
          /\ last.text[2] = row_label(Unwrap(last.coord).y)
          /\ \E d \in 1 .. 8 : last.text[2] = decimal(d) /\ last.shown[2] = decimal(9 - d)
          /\ last.shown # UpperCased(last.text)

\* "a1" typed: parsed as the cell (0,0), shown as "A8".
C28_Witness ==
    /\ last.op = "formatted"
    /\ last.text = <<"a", "1">>
    /\ last.coord = Some(usizevec2(0, 0))
    /\ last.shown = <<"A", "8">>

====
